---- MODULE Spec2Model ----
(***************************************************************************)
(* Job orchestration core of the HPC benchmark orchestrator: the SSH       *)
(* client's scheduler calls (src/src/ssh_client.py), the three lifecycle   *)
(* managers (src/src/servers.py, clients.py, monitors.py) and the session  *)
(* engine (src/src/orchestrator.py).                                       *)
(*                                                                         *)
(* Strings the code takes apart (internal ids, scheduler job ids, stop     *)
(* references) are sequences of one-character strings.  None is <<>> for   *)
(* strings and lists and 0 for timestamps.  The remote scheduler is the    *)
(* environment: the outcome of every remote command is drawn from the set  *)
(* of outcomes that command can have.                                      *)
(***************************************************************************)
EXTENDS Integers, Sequences, FiniteSets, TLC

\* ------------------------------------------------------------------ bounds
\* number of jobs the scheduler accepts in one run
MaxJobs == 2
\* the same, in the runs that also refresh statuses
MaxRefreshJobs == 1
\* number of sessions started in one run
MaxSessions == 1

\* ------------------------------------------------------------ value domains
None == <<>>

\* characters of str(uuid.uuid4())[:8]: hexadecimal digits, here one decimal
\* digit and one letter
HexChars == {"1", "a"}
DigitChars == {"0", "1", "2", "3", "4", "5", "6", "7", "8", "9"}

\* values generate_id can return (a prefix of a random uuid): one of digits
\* only, one mixed, one of letters only
Ids == {<<"1", "1">>, <<"1", "a">>, <<"a", "a">>}

\* the decimal spelling of the n-th scheduler job id
JobIdStr(n) == <<<<"1", "2", "3", "4", "5", "6", "7", "8", "9">>[n]>>

JobIds == {JobIdStr(n) : n \in 1..(MaxJobs + 1)}

\* references a caller can pass to stop_service / get_service_host
Refs == Ids \cup JobIds \cup {<<c>> : c \in HexChars}

Nodes == {"n1"}

\* ServiceStatus
PENDING == "pending"
RUNNING == "running"
COMPLETED == "completed"
FAILED == "failed"
CANCELLED == "cancelled"
ServiceStatus == {PENDING, RUNNING, COMPLETED, FAILED, CANCELLED}
Active == {PENDING, RUNNING}
Terminal == {COMPLETED, FAILED, CANCELLED}

\* state strings squeue / sacct can print
SlurmStates == {"PENDING", "RUNNING", "COMPLETED", "FAILED", "CANCELLED",
                "TIMEOUT", "NODE_FAIL", "CANCELLED by 1000"}

\* ---------------------------------------------------------- string helpers
\* str.isdigit()
IsDigit(s) == Len(s) > 0 /\ \A i \in 1..Len(s) : s[i] \in DigitChars

\* p in s
Contains(s, p) ==
    \E i \in 0..(Len(s) - Len(p)) : SubSeq(s, i + 1, i + Len(p)) = p

\* s.startswith(p)
StartsWith(s, p) == Len(p) <= Len(s) /\ SubSeq(s, 1, Len(p)) = p

\* ------------------------------------------------------- the tracking table
\* _running_instances: a dict, kept here in insertion order
JobInfo(job_id, service_id, t) ==
    [job_id |-> job_id, service_id |-> service_id, status |-> PENDING,
     submitted_at |-> t, started_at |-> 0, completed_at |-> 0,
     nodes |-> None]

Keys(tab) == {tab[i].service_id : i \in 1..Len(tab)}

IndexOf(tab, id) == CHOOSE i \in 1..Len(tab) : tab[i].service_id = id

Get(tab, id) == tab[IndexOf(tab, id)]

\* tab[id] = info
Put(tab, info) ==
    IF info.service_id \in Keys(tab)
    THEN [tab EXCEPT ![IndexOf(tab, info.service_id)] = info]
    ELSE Append(tab, info)

\* del tab[id] for every id in ids
RECURSIVE Without(_, _)
Without(tab, ids) ==
    IF tab = <<>> THEN <<>>
    ELSE IF Head(tab).service_id \in ids THEN Without(Tail(tab), ids)
         ELSE <<Head(tab)>> \o Without(Tail(tab), ids)

\* ------------------------------------------------------------------- state
VARIABLES
    ssh,        \* the orchestrator holds a connected SSHClient
    account,    \* config['slurm'] names an account
    servers,    \* ServersModule._running_instances
    clients,    \* ClientsModule._running_instances
    monitors,   \* MonitorsModule._running_instances
    sessions,   \* BenchmarkOrchestrator._active_sessions, in insertion order
    nextJob,    \* the scheduler's next job number
    node_of,    \* the scheduler's node assignment of each job ("" = none)
    now,        \* time.time()
    run,        \* start_benchmark_session in progress: its local variables
    last        \* the latest call: operation, arguments, result, remote commands

vars == <<ssh, account, servers, clients, monitors, sessions, nextJob,
          node_of, now, run, last>>

\* get_current_time
GetCurrentTime == now

\* a recipe without a service block and without a client block
NoRecipe == [service |-> "none", client |-> "none"]

\* no submit_slurm_job in the call: no step has an outcome
NoOutcome ==
    [upload |-> "-", chmod |-> "-",
     sbatch |-> [exit |-> "-", stdout |-> <<>>, accepted |-> FALSE],
     rm |-> "-"]

Call(op, arg, ret_id, ret_ok, raised, cmds) ==
    [op |-> op, arg |-> arg, ret_id |-> ret_id, ret_ok |-> ret_ok,
     raised |-> raised, cmds |-> cmds, slurm_state |-> "", calls |-> <<>>,
     residue |-> {}, recipe |-> NoRecipe, submit |-> NoOutcome,
     job_id |-> None, script |-> <<>>, cleared |-> <<0, 0>>,
     listed |-> <<>>,
     report |-> [total |-> 0, stopped |-> 0, failed |-> 0, results |-> <<>>],
     value |-> None]

\* one manager call made by an orchestrator operation
Sub(op, arg, ok, host) == [op |-> op, arg |-> arg, ok |-> ok, host |-> host]

Cmd(name, arg) == <<name, arg>>

\* ------------------------------------------------------------- SSHClient
\* outcomes of SSHClient.execute_command for one command: exit code 0,
\* a non-zero exit code, or an exception from the transport
ExecOutcomes == {"0", "1", "raise"}

\* the three words of sbatch's acknowledgement
AckWords == <<<<"Submitted">>, <<"batch">>, <<"job">>>>

\* what sbatch prints for job number n when it accepts the job; a line is a
\* sequence of whitespace-separated tokens
AckLine(n) == AckWords \o <<JobIdStr(n)>>

WarnLine == <<<<"sbatch:">>, <<"warning">>>>

\* sbatch outcomes for the n-th job: accepted (exit 0, acknowledgement
\* printed, possibly after a warning line), exit 0 without acknowledgement,
\* rejected, or the transport raising
SbatchOutcomes(n) ==
    {[exit |-> "0", stdout |-> <<AckLine(n)>>, accepted |-> TRUE],
     [exit |-> "0", stdout |-> <<WarnLine, AckLine(n)>>, accepted |-> TRUE],
     [exit |-> "0", stdout |-> <<WarnLine>>, accepted |-> FALSE],
     [exit |-> "0", stdout |-> <<>>, accepted |-> FALSE],
     [exit |-> "1", stdout |-> <<>>, accepted |-> FALSE],
     [exit |-> "raise", stdout |-> <<>>, accepted |-> FALSE]}

\* everything the environment decides during one submit_slurm_job; a step
\* that is not reached has no outcome ("-")
NoSbatch == [exit |-> "-", stdout |-> <<>>, accepted |-> FALSE]

SubmitOutcomes(n) ==
    [upload : {"fail"}, chmod : {"-"}, sbatch : {NoSbatch}, rm : {"-"}]
    \cup [upload : {"ok"}, chmod : {"1", "raise"}, sbatch : {NoSbatch},
          rm : {"-"}]
    \cup [upload : {"ok"}, chmod : {"0"},
          sbatch : {b \in SbatchOutcomes(n) : b.exit = "raise"}, rm : {"-"}]
    \cup [upload : {"ok"}, chmod : {"0"},
          sbatch : {b \in SbatchOutcomes(n) : b.exit # "raise"},
          rm : ExecOutcomes]

\* 'Submitted batch job' in line
HasAck(line) ==
    \E i \in 1..(Len(line) - 2) : SubSeq(line, i, i + 2) = AckWords

\* the loop over stdout.strip().split('\n'): line.split()[-1] of the first
\* line holding the acknowledgement, else None
RECURSIVE ParseSbatch(_)
ParseSbatch(stdout) ==
    IF stdout = <<>> THEN None
    ELSE IF HasAck(Head(stdout)) THEN Head(stdout)[Len(Head(stdout))]
         ELSE ParseSbatch(Tail(stdout))

Submitted(job_id, left, accepted, cmds) ==
    [job_id |-> job_id, residue |-> left, accepted |-> accepted,
     cmds |-> cmds]

\* SSHClient.submit_slurm_job(script_content, script_name): the job id or
\* None, the files it created that are still there when it returns, whether
\* the scheduler took the job, and the remote commands issued
SubmitSlurmJob(o) ==
    LET up    == <<Cmd("upload", None)>>
        chmod == up \o <<Cmd("chmod", None)>>
        sb    == chmod \o <<Cmd("sbatch", None)>>
        rm    == sb \o <<Cmd("rm", None)>>
        left  == IF o.rm = "0" THEN {} ELSE {"remote"}
    IN  IF o.upload # "ok" THEN Submitted(None, {"local"}, FALSE, up)
        ELSE IF o.chmod # "0"
             THEN Submitted(None, {"local", "remote"}, FALSE, chmod)
        ELSE IF o.sbatch.exit = "raise"
             THEN Submitted(None, {"local", "remote"}, FALSE, sb)
        ELSE IF o.rm = "raise"
             THEN Submitted(None, left, o.sbatch.accepted, rm)
        ELSE IF o.sbatch.exit = "0"
             THEN Submitted(ParseSbatch(o.sbatch.stdout), left,
                            o.sbatch.accepted, rm)
        ELSE Submitted(None, left, FALSE, rm)

\* the scheduler's answers during one get_job_status; each query raises,
\* does not list the job ("none") or lists it in some state; sacct is asked only
\* when squeue does not list the job, and a node list comes with a listing
StatusOutcomes ==
    [squeue : {"raise"}, sacct : {"-"}, nodes : {""}]
    \cup [squeue : SlurmStates, sacct : {"-"}, nodes : Nodes \cup {""}]
    \cup [squeue : {"none"}, sacct : {"raise", "none"}, nodes : {""}]
    \cup [squeue : {"none"}, sacct : SlurmStates, nodes : Nodes \cup {""}]

\* SSHClient.get_job_status(job_id): the status dict, or None (found = FALSE)
GetJobStatus(job_id, q) ==
    LET sq == <<Cmd("squeue", job_id)>>
        sa == sq \o <<Cmd("sacct", job_id)>>
    IN  IF q.squeue = "raise"
        THEN [found |-> FALSE, state |-> "", nodes |-> "", cmds |-> sq]
        ELSE IF q.squeue # "none"
        THEN [found |-> TRUE, state |-> q.squeue, nodes |-> q.nodes,
              cmds |-> sq]
        ELSE IF q.sacct \in {"raise", "none"}
        THEN [found |-> FALSE, state |-> "", nodes |-> "", cmds |-> sa]
        ELSE [found |-> TRUE, state |-> q.sacct, nodes |-> q.nodes,
              cmds |-> sa]

\* SSHClient.cancel_job(job_id): True when scancel exits 0; a non-zero exit
\* code and an exception both give False
CancelJob(c) == c = "0"

\* SSHClient defines no run_command method: the attribute lookup raises
\* AttributeError before any command reaches the cluster
HasRunCommand == FALSE

\* ------------------------------------------------------------- recipes
\* names registered with JobFactory once the services package is imported:
\* services/__init__.py imports the ollama module only
ServiceRegistry == {"ollama"}

\* a recipe: the name in its service block and the workload type of its
\* client block ("none" = the block is absent)
Recipes ==
    [service : {"none", "ollama", "prometheus"},
     client : {"none", "generic", "ollama_benchmark"}]

\* names with a client class registered: ollama.py registers OllamaClient
ClientRegistry == {"ollama"}

\* names a client block gives as target_service.name
TargetNames == {"ollama", "redis"}

\* recipes with a client block only, with the service the client targets
TargetedRecipes ==
    [service : {"none"}, client : {"generic", "ollama_benchmark"},
     target : TargetNames]

\* JobFactory.create_service succeeds: recipe['service']['name'], 'unknown'
\* when absent, is a registered name
CreateServiceOk(recipe) == recipe.service \in ServiceRegistry

\* Job.generate_slurm_script succeeds: config['slurm']['account'] is there
GenerateSlurmScriptOk(acct) == acct

\* --------------------------------------------------- starting tracked jobs
Started(tab, ret, raised, sub, cmds) ==
    [tab |-> tab, ret |-> ret, raised |-> raised, sub |-> sub, cmds |-> cmds]

NoSubmit ==
    [called |-> FALSE, accepted |-> FALSE, residue |-> {},
     outcome |-> NoOutcome, job_id |-> None]

DidSubmit(s, o) ==
    [called |-> TRUE, accepted |-> s.accepted, residue |-> s.residue,
     outcome |-> o, job_id |-> s.job_id]

\* the part of start_service / start_monitor / start_client after the
\* script is rendered: submit and track, or save the script in local mode
SubmitAndTrack(tab, id, o, t, conn, pre) ==
    IF conn
    THEN LET s == SubmitSlurmJob(o)
         IN  IF s.job_id # None
             THEN Started(Put(tab, JobInfo(s.job_id, id, t)), id, FALSE,
                          DidSubmit(s, o), pre \o s.cmds)
             ELSE Started(tab, None, TRUE, DidSubmit(s, o), pre \o s.cmds)
    ELSE Started(tab, id, FALSE, NoSubmit, <<>>)

\* ServersModule.start_service(recipe) with generate_id() = id.  Only a
\* PrometheusService has monitoring_targets, and create_service raises for
\* the unregistered name before they are looked at.
StartServiceCall(tab, recipe, id, o, t, conn, acct) ==
    IF ~CreateServiceOk(recipe) \/ ~GenerateSlurmScriptOk(acct)
    THEN Started(tab, None, TRUE, NoSubmit, <<>>)
    ELSE SubmitAndTrack(tab, id, o, t, conn, <<>>)

\* MonitorsModule.start_monitor(recipe)
StartMonitorCall(tab, recipe, id, o, t, conn, acct) ==
    IF ~CreateServiceOk(recipe) \/ ~GenerateSlurmScriptOk(acct)
    THEN Started(tab, None, TRUE, NoSubmit, <<>>)
    ELSE SubmitAndTrack(tab, id, o, t, conn, <<>>)

\* the uploads of start_client for an ollama_benchmark workload:
\* ensure_benchmark_script and the copy to /tmp; their failures are logged
BenchmarkUploads(recipe) ==
    IF recipe.client = "ollama_benchmark"
    THEN <<Cmd("mkdir", None), Cmd("upload", None)>>
    ELSE <<>>

\* the port of the ollama client's target: target_service.get('port',
\* default_port) with default_port=11434 for the ollama_benchmark workload
TargetPort == "11434"

\* ScriptGenerator._resolve_service_endpoint: the endpoint parameter of the
\* recipe wins, then the discovered host; None when there is neither
ResolveServiceEndpoint(endpoint_from_params, host, port, protocol) ==
    IF endpoint_from_params # None THEN endpoint_from_params
    ELSE IF host # ""
    THEN IF protocol # ""
         THEN <<protocol, "://", host, ":", port>>
         ELSE <<host, ":", port>>
    ELSE None

\* ScriptGenerator._build_client_container_command, as a line of words; the
\* recipes here carry no endpoint parameter
BuildClientContainerCommand(recipe, target_service_host) ==
    <<"apptainer exec", "--bind $HOME/benchmark_scripts:/app", "image">>
    \o IF recipe.client = "ollama_benchmark"
       THEN LET endpoint == ResolveServiceEndpoint(None, target_service_host,
                                                   TargetPort, "http")
            IN  <<"bash", "-c", "pip install requests && ",
                  "python /app/ollama_benchmark.py">>
                \o (IF endpoint # None THEN <<" --endpoint=">> \o endpoint
                    ELSE <<>>)
       ELSE <<"echo", "'Running generic workload'">>

\* ScriptGenerator.generate_client_script: the lines that depend on the
\* target host, in the order they are written
GenerateClientScript(recipe, target_service_host) ==
    (IF target_service_host # ""
     THEN <<<<"export TARGET_SERVICE_HOST=", target_service_host>>>>
     ELSE <<>>)
    \o <<BuildClientContainerCommand(recipe, target_service_host)>>

\* ClientsModule.start_client(recipe, target_service_id, target_service_host):
\* _parse_client_recipe and generate_client_script fill every missing field
\* with a default and do not raise
StartClientCall(tab, recipe, id, o, t, conn) ==
    SubmitAndTrack(tab, id, o, t, conn, BenchmarkUploads(recipe))

Idle ==
    [pc |-> "idle", recipe |-> NoRecipe,
     services |-> <<>>, attempt |-> 0, host |-> "", cmds |-> <<>>,
     calls |-> <<>>]

Init ==
    /\ ssh \in BOOLEAN
    /\ account \in BOOLEAN
    /\ servers = <<>>
    /\ clients = <<>>
    /\ monitors = <<>>
    /\ sessions = <<>>
    /\ nextJob = 1
    /\ node_of = [n \in 1..MaxJobs |-> ""]
    /\ now = 1
    /\ run = Idle
    /\ last = Call("init", None, None, FALSE, FALSE, <<>>)

\* the scheduler numbers the jobs it accepts
Accept(r) == nextJob' = IF r.sub.accepted THEN nextJob + 1 ELSE nextJob

\* the record of a start call: the id returned or the exception, the remote
\* commands, and the files submit_slurm_job created and left behind
StartCall(op, r) ==
    [Call(op, None, r.ret, ~r.raised, r.raised, r.cmds)
        EXCEPT !.residue = r.sub.residue, !.submit = r.sub.outcome,
               !.job_id = r.sub.job_id]

StartService(recipe, id, o, cap) ==
    /\ run.pc = "idle"
    /\ nextJob <= cap
    /\ LET r == StartServiceCall(servers, recipe, id, o, GetCurrentTime,
                                 ssh, account)
       IN  /\ servers' = r.tab
           /\ Accept(r)
           /\ last' = StartCall("start_service", r)
    /\ UNCHANGED <<ssh, account, clients, monitors, sessions, node_of, now,
                   run>>

StartClient(recipe, id, o, cap) ==
    /\ run.pc = "idle"
    /\ nextJob <= cap
    /\ LET r == StartClientCall(clients, recipe, id, o, GetCurrentTime, ssh)
       IN  /\ clients' = r.tab
           /\ Accept(r)
           /\ last' = [StartCall("start_client", r) EXCEPT
                          !.recipe = recipe,
                          !.script = GenerateClientScript(recipe, "")]
    /\ UNCHANGED <<ssh, account, servers, monitors, sessions, node_of, now,
                   run>>

StartMonitor(recipe, id, o, cap) ==
    /\ run.pc = "idle"
    /\ nextJob <= cap
    /\ LET r == StartMonitorCall(monitors, recipe, id, o, GetCurrentTime,
                                 ssh, account)
       IN  /\ monitors' = r.tab
           /\ Accept(r)
           /\ last' = StartCall("start_monitor", r)
    /\ UNCHANGED <<ssh, account, servers, clients, sessions, node_of, now,
                   run>>

\* ------------------------------------------------------- status refresh
\* state_mapping of check_service_status / check_client_status /
\* check_monitor_status
Mapped == {"PENDING", "RUNNING", "COMPLETED", "FAILED", "CANCELLED", "TIMEOUT"}

state_mapping(s) ==
    CASE s = "PENDING" -> PENDING
      [] s = "RUNNING" -> RUNNING
      [] s = "COMPLETED" -> COMPLETED
      [] s = "FAILED" -> FAILED
      [] s = "CANCELLED" -> CANCELLED
      [] s = "TIMEOUT" -> FAILED

\* job_info.status = state_mapping[slurm_state], then the timing update
ApplyState(info, s, t) ==
    LET i1 == [info EXCEPT !.status = state_mapping(s)]
    IN  IF i1.status = RUNNING /\ i1.started_at = 0
        THEN [i1 EXCEPT !.started_at = t]
        ELSE IF i1.status \in Terminal /\ i1.completed_at = 0
        THEN [i1 EXCEPT !.completed_at = t]
        ELSE i1

\* the previous status is not looked at
ApplyAbsentAnyStatus(info, t) ==
    [info EXCEPT !.status = COMPLETED,
                 !.completed_at = IF @ = 0 THEN t ELSE @]

\* the else branch: the job is in neither squeue nor sacct
ApplyAbsent(info, t) ==
    IF info.status \in Active
    THEN [info EXCEPT !.status = COMPLETED,
                      !.completed_at = IF @ = 0 THEN t ELSE @]
    ELSE info

Checked(tab, st) == [tab |-> tab, st |-> st]

NoStatus == [found |-> FALSE, state |-> "", nodes |-> "", cmds |-> <<>>]

\* ServersModule.check_service_status(service_id)
CheckServiceStatusCall(tab, id, q, t, conn) ==
    IF id \notin Keys(tab) THEN Checked(tab, NoStatus)
    ELSE LET info == Get(tab, id)
         IN  IF conn /\ info.job_id # None
             THEN LET st == GetJobStatus(info.job_id, q)
                  IN  IF st.found
                      THEN IF st.state \in Mapped
                           THEN Checked(Put(tab, ApplyState(info, st.state, t)), st)
                           ELSE Checked(tab, st)
                      ELSE Checked(Put(tab, ApplyAbsent(info, t)), st)
             ELSE Checked(tab, NoStatus)

\* ClientsModule.check_client_status(client_id)
CheckClientStatusCall(tab, id, q, t, conn) ==
    IF id \notin Keys(tab) THEN Checked(tab, NoStatus)
    ELSE LET info == Get(tab, id)
         IN  IF conn /\ info.job_id # None
             THEN LET st == GetJobStatus(info.job_id, q)
                  IN  IF st.found
                      THEN IF st.state \in Mapped
                           THEN Checked(Put(tab, ApplyState(info, st.state, t)), st)
                           ELSE Checked(tab, st)
                      ELSE Checked(Put(tab, ApplyAbsent(info, t)), st)
             ELSE Checked(tab, NoStatus)

\* MonitorsModule.check_monitor_status(monitor_id): no branch for a job in
\* neither view; the node list of the answer is stored
CheckMonitorStatusCall(tab, id, q, t, conn) ==
    IF id \notin Keys(tab) THEN Checked(tab, NoStatus)
    ELSE LET info == Get(tab, id)
         IN  IF conn /\ info.job_id # None
             THEN LET st == GetJobStatus(info.job_id, q)
                      i1 == IF st.state \in Mapped
                            THEN ApplyState(info, st.state, t) ELSE info
                      i2 == IF st.nodes # ""
                            THEN [i1 EXCEPT !.nodes = <<st.nodes>>] ELSE i1
                  IN  IF st.found THEN Checked(Put(tab, i2), st)
                      ELSE Checked(tab, st)
             ELSE Checked(tab, NoStatus)

Refreshed(op, id, r) ==
    [Call(op, id, None, r.st.found, FALSE, r.st.cmds)
        EXCEPT !.slurm_state = r.st.state]

CheckServiceStatus(id, q) ==
    /\ run.pc = "idle"
    /\ LET r == CheckServiceStatusCall(servers, id, q, GetCurrentTime, ssh)
       IN  /\ servers' = r.tab
           /\ last' = Refreshed("check_service_status", id, r)
    /\ UNCHANGED <<ssh, account, clients, monitors, sessions, nextJob,
                   node_of, now, run>>

CheckClientStatus(id, q) ==
    /\ run.pc = "idle"
    /\ LET r == CheckClientStatusCall(clients, id, q, GetCurrentTime, ssh)
       IN  /\ clients' = r.tab
           /\ last' = Refreshed("check_client_status", id, r)
    /\ UNCHANGED <<ssh, account, servers, monitors, sessions, nextJob,
                   node_of, now, run>>

CheckMonitorStatus(id, q) ==
    /\ run.pc = "idle"
    /\ LET r == CheckMonitorStatusCall(monitors, id, q, GetCurrentTime, ssh)
       IN  /\ monitors' = r.tab
           /\ last' = Refreshed("check_monitor_status", id, r)
    /\ UNCHANGED <<ssh, account, servers, clients, sessions, nextJob,
                   node_of, now, run>>

\* ---------------------------------------------------------------- listing
\* what the scheduler answered for one entry during a listing
Answer(id, st) == [id |-> id, found |-> st.found, state |-> st.state]

Listing(tab, answers, cmds) ==
    [tab |-> tab, answers |-> answers, cmds |-> cmds]

\* one pass of the loop of list_running_...: check_..._status(id) under the
\* scheduler's answer q
RefreshOne(kind, acc, id, q, t, conn) ==
    LET r == IF kind = "service"
             THEN CheckServiceStatusCall(acc.tab, id, q, t, conn)
             ELSE CheckClientStatusCall(acc.tab, id, q, t, conn)
    IN  Listing(r.tab, Append(acc.answers, Answer(id, r.st)),
                acc.cmds \o r.st.cmds)

\* for id in list(self._running_instances.keys()): check_..._status(id);
\* qs[i] is the scheduler's answer for the i-th key, s the state after the
\* k-th pass
RECURSIVE RefreshAll(_, _, _, _, _, _, _)
RefreshAll(kind, acc, ids, qs, k, t, conn) ==
    IF k > Len(ids) THEN acc
    ELSE CHOOSE out \in
             {RefreshAll(kind, s, ids, qs, k + 1, t, conn) :
                 s \in {RefreshOne(kind, acc, ids[k], qs[k], t, conn)}} : TRUE

\* the ids of the entries that are pending or running, in table order
RECURSIVE ActiveIds(_)
ActiveIds(tab) ==
    IF tab = <<>> THEN <<>>
    ELSE IF Head(tab).status \in Active
         THEN <<Head(tab).service_id>> \o ActiveIds(Tail(tab))
         ELSE ActiveIds(Tail(tab))

\* list_running_services / list_running_clients: with a connection every
\* tracked entry is refreshed first
ListRunningCall(kind, tab, qs, t, conn) ==
    IF conn
    THEN RefreshAll(kind, Listing(tab, <<>>, <<>>),
                    [i \in 1..Len(tab) |-> tab[i].service_id], qs, 1, t, conn)
    ELSE Listing(tab, <<>>, <<>>)

ListedCall(op, r) ==
    [Call(op, None, None, TRUE, FALSE, r.cmds)
        EXCEPT !.calls = r.answers, !.listed = ActiveIds(r.tab)]

ListRunningServices(qs) ==
    /\ run.pc = "idle"
    /\ LET r == ListRunningCall("service", servers, qs, GetCurrentTime, ssh)
       IN  /\ servers' = r.tab
           /\ last' = ListedCall("list_running_services", r)
    /\ UNCHANGED <<ssh, account, clients, monitors, sessions, nextJob,
                   node_of, now, run>>

ListRunningClients(qs) ==
    /\ run.pc = "idle"
    /\ LET r == ListRunningCall("client", clients, qs, GetCurrentTime, ssh)
       IN  /\ clients' = r.tab
           /\ last' = ListedCall("list_running_clients", r)
    /\ UNCHANGED <<ssh, account, servers, monitors, sessions, nextJob,
                   node_of, now, run>>

\* --------------------------------------------------------------- stopping
Stopped(tab, ok, cmds) == [tab |-> tab, ok |-> ok, cmds |-> cmds]

MarkCancelled(info, t) ==
    [info EXCEPT !.status = CANCELLED, !.completed_at = t]

\* the entry is marked whatever scancel answered
StopByServiceIdMarkingAnyway(tab, id, c, t, conn) ==
    LET info == Get(tab, id)
    IN  IF conn /\ info.job_id # None
        THEN Stopped(Put(tab, MarkCancelled(info, t)), CancelJob(c),
                     <<Cmd("scancel", info.job_id)>>)
        ELSE Stopped(Put(tab, MarkCancelled(info, t)), TRUE, <<>>)

\* ServersModule._stop_service_by_service_id(service_id), also the body of
\* stop_client and stop_monitor for a tracked id
StopByServiceId(tab, id, c, t, conn) ==
    LET info == Get(tab, id)
    IN  IF conn /\ info.job_id # None
        THEN IF CancelJob(c)
             THEN Stopped(Put(tab, MarkCancelled(info, t)), TRUE,
                          <<Cmd("scancel", info.job_id)>>)
             ELSE Stopped(tab, FALSE, <<Cmd("scancel", info.job_id)>>)
        ELSE Stopped(Put(tab, MarkCancelled(info, t)), TRUE, <<>>)

\* outcomes of the squeue | grep -i pattern | head -1 of
\* _get_slurm_jobs_by_pattern: the transport raises, no line, or the line
\* of some job of the user
LiveOutcomes ==
    {[kind |-> "raise", job_id |-> None], [kind |-> "none", job_id |-> None]}
    \cup {[kind |-> "line", job_id |-> j] : j \in JobIds}

\* ServersModule._get_slurm_jobs_by_pattern(pattern): the job id found
GetSlurmJobsByPattern(live) ==
    IF live.kind = "line" THEN live.job_id ELSE None

\* the loop runs to its end and keeps the last entry that passes
FirstMatchKeepsLast(tab, hits) ==
    IF hits # {}
    THEN tab[CHOOSE k \in hits : \A m \in hits : k >= m].service_id
    ELSE None

\* the service_id at which the for loop over the dict breaks: the first
\* entry, in dict order, among those that pass the loop's test (hits)
FirstMatch(tab, hits) ==
    IF hits # {}
    THEN tab[CHOOSE k \in hits : \A m \in hits : k <= m].service_id
    ELSE None

\* the name test of _stop_service_by_slurm_reference; job_name is the
\* entry's service_id
NameMatches(info, reference) ==
    \/ Contains(info.service_id, reference)
    \/ StartsWith(info.service_id, reference)

\* ServersModule._stop_service_by_slurm_reference(reference)
StopBySlurmReference(tab, reference, c, live, t, conn) ==
    IF ~conn THEN Stopped(tab, FALSE, <<>>)
    ELSE
    LET byJob == {i \in 1..Len(tab) : tab[i].job_id = reference}
        byName == {i \in 1..Len(tab) : NameMatches(tab[i], reference)}
        service_id == IF IsDigit(reference) THEN FirstMatch(tab, byJob)
                      ELSE FirstMatch(tab, byName)
        job_id0 == IF IsDigit(reference) THEN reference
                   ELSE IF service_id # None THEN Get(tab, service_id).job_id
                   ELSE None
        queried == job_id0 = None
        job_id == IF queried THEN GetSlurmJobsByPattern(live) ELSE job_id0
        pre == IF queried THEN <<Cmd("squeue_grep", reference)>> ELSE <<>>
        cmds == pre \o <<Cmd("scancel", job_id)>>
    IN  IF job_id # None
        THEN IF CancelJob(c)
             THEN IF service_id # None /\ service_id \in Keys(tab)
                  THEN Stopped(Put(tab, MarkCancelled(Get(tab, service_id), t)),
                               TRUE, cmds)
                  ELSE Stopped(tab, TRUE, cmds)
             ELSE Stopped(tab, FALSE, cmds)
        ELSE Stopped(tab, FALSE, pre)

\* the direct lookup is skipped
StopServiceCallByReferenceOnly(tab, reference, c, live, t, conn) ==
    StopBySlurmReference(tab, reference, c, live, t, conn)

\* ServersModule.stop_service(service_id)
StopServiceCall(tab, reference, c, live, t, conn) ==
    IF reference \in Keys(tab)
    THEN StopByServiceId(tab, reference, c, t, conn)
    ELSE StopBySlurmReference(tab, reference, c, live, t, conn)

\* ClientsModule.stop_client(client_id)
StopClientCall(tab, id, c, t, conn) ==
    IF id \notin Keys(tab) THEN Stopped(tab, FALSE, <<>>)
    ELSE StopByServiceId(tab, id, c, t, conn)

\* MonitorsModule.stop_monitor(monitor_id)
StopMonitorCall(tab, id, c, t, conn) ==
    IF id \notin Keys(tab) THEN Stopped(tab, FALSE, <<>>)
    ELSE StopByServiceId(tab, id, c, t, conn)

StopService(reference, c, live) ==
    /\ run.pc = "idle"
    /\ LET r == StopServiceCall(servers, reference, c, live, GetCurrentTime, ssh)
       IN  /\ servers' = r.tab
           /\ last' = Call("stop_service", reference, None, r.ok, FALSE, r.cmds)
    /\ UNCHANGED <<ssh, account, clients, monitors, sessions, nextJob,
                   node_of, now, run>>

StopClient(id, c) ==
    /\ run.pc = "idle"
    /\ LET r == StopClientCall(clients, id, c, GetCurrentTime, ssh)
       IN  /\ clients' = r.tab
           /\ last' = Call("stop_client", id, None, r.ok, FALSE, r.cmds)
    /\ UNCHANGED <<ssh, account, servers, monitors, sessions, nextJob,
                   node_of, now, run>>

StopMonitor(id, c) ==
    /\ run.pc = "idle"
    /\ LET r == StopMonitorCall(monitors, id, c, GetCurrentTime, ssh)
       IN  /\ monitors' = r.tab
           /\ last' = Call("stop_monitor", id, None, r.ok, FALSE, r.cmds)
    /\ UNCHANGED <<ssh, account, servers, clients, sessions, nextJob,
                   node_of, now, run>>

\* ------------------------------------------------------ stopping them all
\* the words looked for in a job name by list_all_services
ServiceKeywords == {"service", "ollama", "server", "postgres", "chroma"}

\* names of the user's jobs in the queue, as sequences of words
JobNames == {<<"ollama">>, <<"bash">>}

\* the user's jobs squeue can list
QueueJobs == {JobIdStr(1), JobIdStr(2)}

QueueLine == [job_id : QueueJobs, name : JobNames]

\* outcomes of "squeue -u $USER --format='%i,%j,%T'": the transport raises,
\* or the lines of up to two jobs
QueueOutcomes ==
    {[kind |-> "raise", lines |-> <<>>], [kind |-> "lines", lines |-> <<>>]}
    \cup {[kind |-> "lines", lines |-> <<a>>] : a \in QueueLine}
    \cup {[kind |-> "lines", lines |-> p] :
             p \in {x \in QueueLine \X QueueLine : x[1].job_id # x[2].job_id}}

\* any(keyword in job_name.lower() for keyword in [...])
IsServiceJob(job_name) ==
    \E i \in 1..Len(job_name) : job_name[i] \in ServiceKeywords

ServiceInfo(service_id, job_id, type) ==
    [service_id |-> service_id, job_id |-> job_id, type |-> type]

\* the queue's service jobs that no tracked entry holds, named by job name
RECURSIVE SlurmServices(_, _)
SlurmServices(lines, tracked) ==
    IF lines = <<>> THEN <<>>
    ELSE (IF IsServiceJob(Head(lines).name) /\ Head(lines).job_id \notin tracked
          THEN <<ServiceInfo(Head(lines).name, Head(lines).job_id,
                             "slurm_only")>>
          ELSE <<>>)
         \o SlurmServices(Tail(lines), tracked)

\* ServersModule.list_all_services()['all_services']
ListAllServices(tab, queue, conn) ==
    [i \in 1..Len(tab) |->
        ServiceInfo(tab[i].service_id, tab[i].job_id, "tracked")]
    \o (IF conn /\ queue.kind = "lines"
        THEN SlurmServices(queue.lines,
                           {tab[i].job_id : i \in 1..Len(tab)})
        ELSE <<>>)

\* the same queue seen through "| grep -i pattern | head -1"
GrepQueue(queue, pattern) ==
    LET hits == {i \in 1..Len(queue.lines) :
                    Contains(queue.lines[i].name, pattern)}
    IN  IF queue.kind = "raise" THEN [kind |-> "raise", job_id |-> None]
        ELSE IF hits = {} THEN [kind |-> "none", job_id |-> None]
        ELSE [kind |-> "line",
              job_id |-> queue.lines[CHOOSE k \in hits :
                                        \A m \in hits : k <= m].job_id]

\* the job a stop cancelled: the argument of its scancel, if it issued one
CancelTarget(cmds) ==
    LET hits == {i \in 1..Len(cmds) : cmds[i][1] = "scancel"}
    IN  IF hits = {} THEN None ELSE cmds[CHOOSE i \in hits : TRUE][2]

\* stop_service(reference) where scancel of job j exits with cs[j]; the job
\* it cancels (found in try) does not depend on the exit code
StopServiceWith(tab, reference, cs, queue, t, conn) ==
    CHOOSE out \in
        {IF CancelTarget(try.cmds) = None THEN try
         ELSE StopServiceCall(tab, reference, cs[CancelTarget(try.cmds)],
                              GrepQueue(queue, reference), t, conn) :
            try \in {StopServiceCall(tab, reference, "0",
                                     GrepQueue(queue, reference), t, conn)}} :
        TRUE

\* results['results'][key] = value
SetResult(results, key, value) ==
    IF \E i \in 1..Len(results) : results[i].key = key
    THEN [i \in 1..Len(results) |->
             IF results[i].key = key THEN [key |-> key, value |-> value]
             ELSE results[i]]
    ELSE Append(results, [key |-> key, value |-> value])

StoppedAll(tab, report, cmds) == [tab |-> tab, report |-> report, cmds |-> cmds]

\* results['stopped_services'] += 1 or results['failed_services'] += 1,
\* and the entry for the item
Tally(report, service_id, ok, value) ==
    [report EXCEPT !.stopped = IF ok THEN @ + 1 ELSE @,
                   !.failed = IF ok THEN @ ELSE @ + 1,
                   !.results = SetResult(@, service_id, value)]

\* the rest of a pass once stop_service(service_id) has returned r1:
\* stop_service(job_id) when r1 failed and the item has a job id
StopSecond(item, report, cmds, r1, cs, queue, t, conn) ==
    IF r1.ok
    THEN StoppedAll(r1.tab, Tally(report, item.service_id, TRUE, "stopped"),
                    cmds \o r1.cmds)
    ELSE IF item.job_id = None
    THEN StoppedAll(r1.tab, Tally(report, item.service_id, FALSE, "failed"),
                    cmds \o r1.cmds)
    ELSE CHOOSE out \in
             {StoppedAll(r2.tab,
                         Tally(report, item.service_id, r2.ok,
                               IF r2.ok THEN "stopped (via job_id)"
                               ELSE "failed"),
                         cmds \o r1.cmds \o r2.cmds) :
                 r2 \in {StopServiceWith(r1.tab, item.job_id, cs, queue, t,
                                         conn)}} : TRUE

\* one pass of the loop of stop_all_services
StopItem(tab, item, report, cmds, cs, queue, t, conn) ==
    CHOOSE out \in
        {StopSecond(item, report, cmds, r1, cs, queue, t, conn) :
            r1 \in {StopServiceWith(tab, item.service_id, cs, queue, t,
                                    conn)}} : TRUE

\* the loop of stop_all_services from its k-th item on; s is the state
\* after the k-th pass
RECURSIVE StopEach(_, _, _, _, _, _, _, _, _)
StopEach(tab, items, k, report, cmds, cs, queue, t, conn) ==
    IF k > Len(items) THEN StoppedAll(tab, report, cmds)
    ELSE CHOOSE out \in
             {StopEach(s.tab, items, k + 1, s.report, s.cmds, cs, queue, t,
                       conn) :
                 s \in {StopItem(tab, items[k], report, cmds, cs, queue, t,
                                 conn)}} : TRUE

\* BenchmarkOrchestrator.stop_all_services(): stop_service catches every
\* exception, so neither except branch is taken
StopAllServicesCall(tab, cs, queue, t, conn) ==
    LET items == ListAllServices(tab, queue, conn)
    IN  StopEach(tab, items, 1,
                 [total |-> Len(items), stopped |-> 0, failed |-> 0,
                  results |-> <<>>],
                 IF conn THEN <<Cmd("squeue_all", None)>> ELSE <<>>,
                 cs, queue, t, conn)

StopAllServices(cs, queue) ==
    /\ run.pc = "idle"
    /\ LET r == StopAllServicesCall(servers, cs, queue, GetCurrentTime, ssh)
       IN  /\ servers' = r.tab
           /\ last' = [Call("stop_all_services", None, None, TRUE, FALSE,
                            r.cmds)
                          EXCEPT !.report = r.report,
                                 !.calls = ListAllServices(servers, queue, ssh)]
    /\ UNCHANGED <<ssh, account, clients, monitors, sessions, nextJob,
                   node_of, now, run>>

\* -------------------------------------------------------- host resolution
\* the scheduler's node for a job id ("" while it has none)
NodeOfJob(job_id) ==
    IF \E n \in 1..MaxJobs : JobIdStr(n) = job_id
    THEN node_of[CHOOSE n \in 1..MaxJobs : JobIdStr(n) = job_id]
    ELSE ""

\* outcomes of the squeue | grep of get_service_host for an untracked id:
\* the transport raises, no line, or the first line's node column
GrepOutcomes ==
    [kind : {"raise", "none"}, nodes : {""}]
    \cup [kind : {"line"}, nodes : Nodes \cup {"", "(null)"}]

Resolved(tab, host, cmds) == [tab |-> tab, host |-> host, cmds |-> cmds]

\* ServersModule.get_service_host(service_id); host "" is None
GetServiceHostCall(tab, service_id, g, conn) ==
    IF service_id \notin Keys(tab)
    THEN IF conn
         THEN IF g.kind = "line" /\ g.nodes \notin {"", "(null)"}
              THEN Resolved(tab, g.nodes, <<Cmd("squeue_grep", service_id)>>)
              ELSE Resolved(tab, "", <<Cmd("squeue_grep", service_id)>>)
         ELSE Resolved(tab, "", <<>>)
    ELSE LET info == Get(tab, service_id)
         IN  IF info.nodes # None THEN Resolved(tab, info.nodes[1], <<>>)
             ELSE IF conn /\ info.job_id # None
             THEN IF HasRunCommand /\ NodeOfJob(info.job_id) # ""
                  THEN Resolved(Put(tab, [info EXCEPT
                                    !.nodes = <<NodeOfJob(info.job_id)>>]),
                                NodeOfJob(info.job_id),
                                <<Cmd("squeue_nodes", info.job_id)>>)
                  ELSE IF HasRunCommand
                  THEN Resolved(tab, "", <<Cmd("squeue_nodes", info.job_id)>>)
                  ELSE Resolved(tab, "", <<>>)
             ELSE Resolved(tab, "", <<>>)

GetServiceHost(service_id, g) ==
    /\ run.pc = "idle"
    /\ LET r == GetServiceHostCall(servers, service_id, g, ssh)
       IN  /\ servers' = r.tab
           /\ last' = [Call("get_service_host", service_id, None,
                            r.host # "", FALSE, r.cmds)
                         EXCEPT !.slurm_state = r.host]
    /\ UNCHANGED <<ssh, account, clients, monitors, sessions, nextJob,
                   node_of, now, run>>

\* ------------------------------------------------------- cleanup, clearing
\* cleanup_completed_services / cleanup_completed_clients
CleanupCompleted(tab) ==
    Without(tab, {tab[i].service_id : i \in {k \in 1..Len(tab) :
                                              tab[k].status \in Terminal}})

CleanupCompletedServices ==
    /\ run.pc = "idle"
    /\ servers' = CleanupCompleted(servers)
    /\ last' = Call("cleanup_completed_services", None, None, TRUE, FALSE, <<>>)
    /\ UNCHANGED <<ssh, account, clients, monitors, sessions, nextJob,
                   node_of, now, run>>

CleanupCompletedClients ==
    /\ run.pc = "idle"
    /\ clients' = CleanupCompleted(clients)
    /\ last' = Call("cleanup_completed_clients", None, None, TRUE, FALSE, <<>>)
    /\ UNCHANGED <<ssh, account, servers, monitors, sessions, nextJob,
                   node_of, now, run>>

\* a clearing that cancels what it forgets
ClearAllStateCancelling ==
    /\ run.pc = "idle"
    /\ servers' = <<>>
    /\ clients' = <<>>
    /\ last' = [Call("clear_all_state", None, None, TRUE, FALSE,
                     [i \in 1..Len(servers) |->
                         Cmd("scancel", servers[i].job_id)]
                     \o [i \in 1..Len(clients) |->
                            Cmd("scancel", clients[i].job_id)])
                   EXCEPT !.cleared = <<Len(servers), Len(clients)>>]
    /\ UNCHANGED <<ssh, account, monitors, sessions, nextJob, node_of, now,
                   run>>

\* BenchmarkOrchestrator.clear_all_state: both tables are emptied and the
\* numbers of entries they held are returned
ClearAllState ==
    /\ run.pc = "idle"
    /\ servers' = <<>>
    /\ clients' = <<>>
    /\ last' = [Call("clear_all_state", None, None, TRUE, FALSE, <<>>)
                   EXCEPT !.cleared = <<Len(servers), Len(clients)>>]
    /\ UNCHANGED <<ssh, account, monitors, sessions, nextJob, node_of, now,
                   run>>

\* ------------------------------------------------------------ environment
\* the scheduler places a submitted job on a node
AssignNode ==
    /\ \E n \in 1..MaxJobs, h \in Nodes :
          /\ n < nextJob
          /\ node_of[n] = ""
          /\ node_of' = [node_of EXCEPT ![n] = h]
    /\ UNCHANGED <<ssh, account, servers, clients, monitors, sessions,
                   nextJob, now, run, last>>

\* ---------------------------------------------------------------- sessions
\* one pass too many
HostAttemptsOneMore == 6 + 1

\* the range(6) of start_benchmark_session
HostAttempts == 6

Session(services, cls, status) ==
    [services |-> services, clients |-> cls, status |-> status]

SessionCall(recipe, ok, cmds, calls) ==
    [Call("start_benchmark_session", None, None, ok, ~ok, cmds)
        EXCEPT !.calls = calls, !.recipe = recipe]

\* the except branch after a failed start_client keeps nothing
FailedSessionForgetting(services) == Session(<<>>, <<>>, "failed")

\* the except branch after a failed start_client: session_info keeps the
\* services appended so far
FailedSession(services) == Session(services, <<>>, "failed")

\* self._active_sessions[session_id] = session_info, where session_id is
\* 'session_<len(self._active_sessions) + 1>' and nothing deletes a key
StoreSession(tab, info) == Append(tab, info)

\* jobs a recipe needs from the scheduler
Blocks(recipe) ==
    (IF recipe.service # "none" THEN 1 ELSE 0)
    + (IF recipe.client # "none" THEN 1 ELSE 0)

\* start_benchmark_session up to the host-resolution loop: the service is
\* started; a failure stores the session as failed and is re-raised
SessionBegin(recipe, id, o, cap) ==
    /\ run.pc = "idle"
    /\ Len(sessions) < cap
    /\ Blocks(recipe) >= 1
    /\ nextJob + Blocks(recipe) - 1 <= MaxJobs
    /\ LET has == recipe.service # "none"
           r == IF has
                THEN StartServiceCall(servers, recipe, id, o, GetCurrentTime,
                                      ssh, account)
                ELSE Started(servers, None, FALSE, NoSubmit, <<>>)
           services == IF has /\ ~r.raised THEN <<r.ret>> ELSE <<>>
           calls == IF has THEN <<Sub("start_service", None, ~r.raised, "")>>
                    ELSE <<>>
       IN  /\ servers' = r.tab
           /\ Accept(r)
           /\ IF r.raised
              THEN /\ sessions' = StoreSession(sessions,
                                               Session(<<>>, <<>>, "failed"))
                   /\ run' = Idle
                   /\ last' = SessionCall(recipe, FALSE, r.cmds, calls)
              ELSE IF recipe.client = "none"
              THEN /\ sessions' = StoreSession(sessions,
                                               Session(services, <<>>, "running"))
                   /\ run' = Idle
                   /\ last' = SessionCall(recipe, TRUE, r.cmds, calls)
              ELSE /\ sessions' = sessions
                   /\ run' = [pc |-> IF services # <<>> THEN "resolve"
                                     ELSE "client",
                              recipe |-> recipe, services |-> services,
                              attempt |-> 0, host |-> "", cmds |-> r.cmds,
                              calls |-> calls]
                   /\ last' = last
    /\ UNCHANGED <<ssh, account, clients, monitors, node_of, now>>

\* one pass of the loop: get_service_host, then break or sleep
SessionResolve(g) ==
    /\ run.pc = "resolve"
    /\ LET target == run.services[1]
           r == GetServiceHostCall(servers, target, g, ssh)
           done == r.host # "" \/ run.attempt + 1 >= HostAttempts
       IN  /\ servers' = r.tab
           /\ run' = [run EXCEPT
                 !.pc = IF done THEN "client" ELSE "resolve",
                 !.attempt = @ + 1,
                 !.host = r.host,
                 !.cmds = @ \o r.cmds,
                 !.calls = Append(@, Sub("get_service_host", target,
                                         r.host # "", r.host))]
    /\ UNCHANGED <<ssh, account, clients, monitors, sessions, nextJob,
                   node_of, now, last>>

\* the rest of start_benchmark_session: start_client with the host found,
\* then the session is stored
SessionClient(id, o) ==
    /\ run.pc = "client"
    /\ LET r == StartClientCall(clients, run.recipe, id, o, GetCurrentTime, ssh)
           calls == Append(run.calls, Sub("start_client", None, ~r.raised,
                                          run.host))
       IN  /\ clients' = r.tab
           /\ Accept(r)
           /\ sessions' = StoreSession(sessions,
                 IF r.raised THEN FailedSession(run.services)
                 ELSE Session(run.services, <<r.ret>>, "running"))
           /\ last' = [SessionCall(run.recipe, ~r.raised, run.cmds \o r.cmds,
                                   calls)
                          EXCEPT !.script =
                              GenerateClientScript(run.recipe, run.host)]
    /\ run' = Idle
    /\ UNCHANGED <<ssh, account, servers, monitors, node_of, now>>

\* 'session_k'
SessionId(k) == <<"session_">> \o JobIdStr(k)

Loop(tab, success, calls, cmds) ==
    [tab |-> tab, success |-> success, calls |-> calls, cmds |-> cmds]

\* for client_id in session_info['clients']: if not stop_client(client_id):
\* success = False.  c is the scheduler's answer to the cancel.
RECURSIVE StopClients(_, _, _, _, _, _)
StopClients(tab, ids, success, c, t, conn) ==
    IF ids = <<>> THEN Loop(tab, success, <<>>, <<>>)
    ELSE LET r == StopClientCall(tab, Head(ids), c, t, conn)
             rest == StopClients(r.tab, Tail(ids),
                                 IF r.ok THEN success ELSE FALSE, c, t, conn)
         IN  Loop(rest.tab, rest.success,
                  <<Sub("stop_client", Head(ids), r.ok, "")>> \o rest.calls,
                  r.cmds \o rest.cmds)

\* for service_id in session_info['services']: if not stop_service(service_id):
\* success = False
RECURSIVE StopServices(_, _, _, _, _, _, _)
StopServices(tab, ids, success, c, live, t, conn) ==
    IF ids = <<>> THEN Loop(tab, success, <<>>, <<>>)
    ELSE LET r == StopServiceCall(tab, Head(ids), c, live, t, conn)
             rest == StopServices(r.tab, Tail(ids),
                                  IF r.ok THEN success ELSE FALSE, c, live,
                                  t, conn)
         IN  Loop(rest.tab, rest.success,
                  <<Sub("stop_service", Head(ids), r.ok, "")>> \o rest.calls,
                  r.cmds \o rest.cmds)

\* the two loops in the other order
StopBenchmarkSessionCallServicesFirst(session, cls, svs, cc, cs, live, t, conn) ==
    LET sv == StopServices(svs, session.services, TRUE, cs, live, t, conn)
        cl == StopClients(cls, session.clients, sv.success, cc, t, conn)
    IN  [clients |-> cl.tab, servers |-> sv.tab, success |-> cl.success,
         calls |-> sv.calls \o cl.calls, cmds |-> sv.cmds \o cl.cmds]

\* BenchmarkOrchestrator.stop_benchmark_session('session_k'): clients
\* first, then services
StopBenchmarkSessionCall(session, cls, svs, cc, cs, live, t, conn) ==
    LET cl == StopClients(cls, session.clients, TRUE, cc, t, conn)
        sv == StopServices(svs, session.services, cl.success, cs, live, t, conn)
    IN  [clients |-> cl.tab, servers |-> sv.tab, success |-> sv.success,
         calls |-> cl.calls \o sv.calls, cmds |-> cl.cmds \o sv.cmds]

StopBenchmarkSession(k, cc, cs, live) ==
    /\ run.pc = "idle"
    /\ IF k \in 1..Len(sessions)
       THEN LET r == StopBenchmarkSessionCall(sessions[k], clients, servers,
                                              cc, cs, live, GetCurrentTime, ssh)
            IN  /\ clients' = r.clients
                /\ servers' = r.servers
                /\ sessions' = [sessions EXCEPT ![k].status =
                       IF r.success THEN "stopped" ELSE "partially_stopped"]
                /\ last' = [Call("stop_benchmark_session", SessionId(k), None,
                                 r.success, FALSE, r.cmds)
                              EXCEPT !.calls = r.calls]
       ELSE /\ UNCHANGED <<clients, servers, sessions>>
            /\ last' = Call("stop_benchmark_session", SessionId(k), None,
                            FALSE, FALSE, <<>>)
    /\ UNCHANGED <<ssh, account, monitors, nextJob, node_of, now, run>>

\* ------------------------------------------------------ service endpoints
\* the shell variable written where no host is known
Placeholder == "${TARGET_SERVICE_HOST}"

\* f"{protocol}://{host}:{port}", or f"{host}:{port}" without a protocol
Endpoint(protocol, host, port) ==
    IF protocol # "" THEN <<protocol, "://", host, ":", port>>
    ELSE <<host, ":", port>>

\* target_service.get('port', default): "" is an absent port
PortOr(target_port, default) ==
    IF target_port # "" THEN target_port ELSE default

\* Client.resolve_service_endpoint, inherited by a client class that does
\* not override it; default_port "" is None, and protocol is "http" unless
\* the caller passes another
ClientResolveServiceEndpoint(a) ==
    IF a.endpoint # None THEN a.endpoint
    ELSE Endpoint(a.protocol,
                  IF a.host # "" THEN a.host ELSE Placeholder,
                  PortOr(a.port,
                         IF a.default_port # "" THEN a.default_port
                         ELSE "8080"))

\* OllamaClient.resolve_service_endpoint; default_port is 11434 unless the
\* caller passes one
OllamaResolveServiceEndpoint(a) ==
    IF a.endpoint # None THEN a.endpoint
    ELSE IF a.host # ""
    THEN Endpoint(a.protocol, a.host,
                  PortOr(a.port, IF a.default_port # "" THEN a.default_port
                                 ELSE "11434"))
    ELSE None

\* MySQLClient.resolve_service_endpoint: default_port and protocol are not
\* read
MySQLResolveServiceEndpoint(a) ==
    IF a.endpoint # None THEN a.endpoint
    ELSE <<IF a.host # "" THEN a.host ELSE Placeholder, ":",
           PortOr(a.port, "3306")>>

\* the classes that resolve an endpoint
Resolvers == {"Client", "OllamaClient", "MySQLClient", "ScriptGenerator"}

\* the arguments of one resolution: the endpoint among the parameters
\* (None when there is none or it is empty), the host ("" = None), the port
\* of target_service ("" = absent), the default port ("" = not passed) and
\* the protocol
EndpointArgs ==
    [impl : Resolvers,
     endpoint : {None, <<"tcp", "://", "h9", ":", "1">>},
     host : Nodes \cup {""},
     port : {"", "8000"},
     default_port : {"", "9000"},
     protocol : {"http", ""}]

\* resolve_service_endpoint of the class a.impl
ResolveEndpointCall(a) ==
    CASE a.impl = "Client" -> ClientResolveServiceEndpoint(a)
      [] a.impl = "OllamaClient" -> OllamaResolveServiceEndpoint(a)
      [] a.impl = "MySQLClient" -> MySQLResolveServiceEndpoint(a)
      [] a.impl = "ScriptGenerator" ->
            ResolveServiceEndpoint(a.endpoint, a.host,
                PortOr(a.port, IF a.default_port # "" THEN a.default_port
                               ELSE "8080"),
                a.protocol)

ResolveEndpoint(a) ==
    /\ run.pc = "idle"
    /\ last' = [Call("resolve_service_endpoint", a, None, TRUE, FALSE, <<>>)
                   EXCEPT !.value = ResolveEndpointCall(a)]
    /\ UNCHANGED <<ssh, account, servers, clients, monitors, sessions,
                   nextJob, node_of, now, run>>

\* ------------------------------------------------------------ the factory
\* JobFactory._service_registry / _client_registry after the imports a
\* process made: the services package alone, or every module of it
ServiceRegistries == {{"ollama"}, {"ollama", "mysql", "prometheus", "grafana"}}
ClientRegistries == {{"ollama"}, {"ollama", "mysql"}}

\* recipes given to the factory: the name of the service block, the name
\* of the client block, and its target_service ("missing": no such key,
\* "empty": {}, else the 'name' in it)
FactoryRecipes ==
    [service : {"missing", "ollama", "mysql", "redis"},
     client_name : {"ollama", "bench"},
     target : {"missing", "empty", "ollama", "mysql", "redis"}]

\* d.get('name', 'unknown')
NameOr(name) == IF name \in {"missing", "empty"} THEN "unknown" ELSE name

Created(class, raised, message, sreg, creg) ==
    [class |-> class, raised |-> raised, message |-> message,
     sreg |-> sreg, creg |-> creg]

\* JobFactory.create_service(recipe, config): the class registered under
\* recipe['service']['name'] builds the service
CreateServiceCall(recipe, sreg, creg) ==
    LET service_name == NameOr(recipe.service)
    IN  IF service_name \in sreg
        THEN Created(<<"service", service_name>>, FALSE, <<>>, sreg, creg)
        ELSE Created(None, TRUE, <<"Unknown service type: ", service_name>>,
                     sreg, creg)

\* the class is looked up under the client's own name
CreateClientCallByOwnName(recipe, sreg, creg) ==
    LET service_name == recipe.client_name
    IN  IF service_name \in creg
        THEN Created(<<"client", service_name>>, FALSE, <<>>, sreg, creg)
        ELSE Created(None, TRUE,
                     <<"Unknown target service for client: ", service_name>>,
                     sreg, creg)

\* JobFactory.create_client(recipe, config): the class registered under
\* recipe['client']['target_service']['name'] builds the client
CreateClientCall(recipe, sreg, creg) ==
    LET service_name == NameOr(recipe.target)
    IN  IF service_name \in creg
        THEN Created(<<"client", service_name>>, FALSE, <<>>, sreg, creg)
        ELSE Created(None, TRUE,
                     <<"Unknown target service for client: ", service_name>>,
                     sreg, creg)

FactoryCall(op, recipe, sreg, creg, r) ==
    [Call(op, [recipe |-> recipe, sreg |-> sreg, creg |-> creg], None,
          ~r.raised, r.raised, <<>>)
        EXCEPT !.value = r]

CreateService(recipe, sreg, creg) ==
    /\ run.pc = "idle"
    /\ last' = FactoryCall("create_service", recipe, sreg, creg,
                           CreateServiceCall(recipe, sreg, creg))
    /\ UNCHANGED <<ssh, account, servers, clients, monitors, sessions,
                   nextJob, node_of, now, run>>

CreateClient(recipe, sreg, creg) ==
    /\ run.pc = "idle"
    /\ last' = FactoryCall("create_client", recipe, sreg, creg,
                           CreateClientCall(recipe, sreg, creg))
    /\ UNCHANGED <<ssh, account, servers, clients, monitors, sessions,
                   nextJob, node_of, now, run>>

\* -------------------------------------------------------- the batch script
\* keys a recipe's resources block may supply ("" = not supplied); 'cpus'
\* is the key the Job docstring names beside mem and gres
ResourceKeys == {"time", "account", "mem", "cpus"}
ResourceValues ==
    [time : {"", "02:00:00"}, account : {"", "proj_r"},
     mem : {"", "16GB"}, cpus : {"", "4"}]

\* a job with the configuration it was built with: config['slurm'] gives
\* the account ("" = absent) and may give the time
Jobs ==
    [name : {"ollama", "mysql"}, job_id : {"a1b2c3d4", "job_123"},
     resources : ResourceValues,
     environment : {<<>>, <<"OLLAMA_HOST", "0.0.0.0">>},
     slurm_account : {"", "default_account"},
     slurm_time : {"", "00:30:00"}]

\* slurm_config.get(key, default)
ConfigOr(value, default) == IF value # "" THEN value ELSE default

\* {**default_slurm_config, **self.resources}[key]
Final(job, key, default) ==
    IF key \in ResourceKeys /\ job.resources[key] # ""
    THEN job.resources[key] ELSE default

Sbatch(flag, value) == <<"#SBATCH", flag, "=", value>>

\* script_lines.insert(-2, line)
InsertMinus2(lines, line) ==
    SubSeq(lines, 1, Len(lines) - 2) \o <<line>>
        \o SubSeq(lines, Len(lines) - 1, Len(lines))

\* the directives of the script: the nine fixed ones, then gres, mem and
\* cpus_per_task where the merged configuration has them
Directives(job) ==
    LET fixed ==
          << <<"#!/bin/bash -l">>,
             <<"#SBATCH", "--job-name", "=", job.name, "_", job.job_id>>,
             Sbatch("--time", Final(job, "time",
                                    ConfigOr(job.slurm_time, "00:15:00"))),
             Sbatch("--qos", Final(job, "qos", "default")),
             Sbatch("--partition", Final(job, "partition", "cpu")),
             Sbatch("--account", Final(job, "account", job.slurm_account)),
             Sbatch("--nodes", Final(job, "nodes", "1")),
             Sbatch("--ntasks", Final(job, "ntasks", "1")),
             Sbatch("--ntasks-per-node", Final(job, "ntasks_per_node", "1")) >>
        gres == IF Final(job, "gres", "") # ""
                THEN InsertMinus2(fixed, Sbatch("--gres", Final(job, "gres", "")))
                ELSE fixed
        mem == IF Final(job, "mem", "") # ""
               THEN InsertMinus2(gres, Sbatch("--mem", Final(job, "mem", "")))
               ELSE gres
    IN  IF Final(job, "cpus_per_task", "") # ""
        THEN InsertMinus2(mem, Sbatch("--cpus-per-task",
                                      Final(job, "cpus_per_task", "")))
        ELSE mem

\* the lines after the directives: the module, the exports of the
\* environment, and the commands of the job
Body(job) ==
    << <<"module add Apptainer">> >>
        \o (IF job.environment # <<>>
            THEN << <<"export", job.environment[1], "=", job.environment[2]>> >>
            ELSE <<>>)
        \o << <<"apptainer exec", job.name>> >>

\* Job.generate_slurm_script(job_id): None stands for the ValueError raised
\* when config['slurm'] has no account
GenerateSlurmScript(job) ==
    IF job.slurm_account = "" THEN None ELSE Directives(job) \o Body(job)

GenerateScript(job) ==
    /\ run.pc = "idle"
    /\ last' = [Call("generate_slurm_script", job, None,
                     job.slurm_account # "", job.slurm_account = "", <<>>)
                   EXCEPT !.script = GenerateSlurmScript(job)]
    /\ UNCHANGED <<ssh, account, servers, clients, monitors, sessions,
                   nextJob, node_of, now, run>>

\* ----------------------------------------------------- the container build
\* a job with a fixed image path: its class, whether container.docker_source
\* is set, and whether container.build_commands lists commands
BuildSpecs ==
    [class : {"Service", "OllamaClient", "MySQLClient"},
     docker_source : BOOLEAN, build_commands : BOOLEAN]

\* the build commands one call of _generate_container_build_commands
\* renders: none without a source; a client with build_commands builds
\* with --force from a definition file; otherwise the build sits under
\* 'if [ ! -f <image> ]'
BuildGuard(spec) ==
    IF ~spec.docker_source THEN "none"
    ELSE IF spec.class # "Service" /\ spec.build_commands THEN "force"
    ELSE "if_absent"

\* the build blocks of the script: generate_slurm_script renders one, and
\* Client.generate_script_commands, which MySQLClient inherits, a second
BuildBlocks(spec) ==
    IF BuildGuard(spec) = "none" THEN <<>>
    ELSE IF spec.class = "MySQLClient" THEN <<BuildGuard(spec), BuildGuard(spec)>>
    ELSE <<BuildGuard(spec)>>

\* the shell running one block: st is the image file, the builds made and
\* the exit status so far; ok is the outcome of apptainer build
RunBlock(guard, st, ok) ==
    IF st.exit # 0 \/ (guard = "if_absent" /\ st.exists) THEN st
    ELSE [exists |-> st.exists \/ ok, builds |-> st.builds + 1,
          exit |-> IF ok THEN 0 ELSE 1]

RECURSIVE RunBlocks(_, _, _)
RunBlocks(blocks, st, ok) ==
    IF blocks = <<>> THEN st
    ELSE RunBlocks(Tail(blocks), RunBlock(Head(blocks), st, ok), ok)

\* one run of the rendered script on a host where the image file exists
\* or not
RunScript(spec, exists, ok) ==
    RunBlocks(BuildBlocks(spec), [exists |-> exists, builds |-> 0, exit |-> 0], ok)

\* the script is run, and run again on what the first run left
RunTwice(spec, exists, ok1, ok2) ==
    /\ run.pc = "idle"
    /\ last' = [Call("run_script", [spec |-> spec, exists |-> exists,
                                    ok |-> <<ok1, ok2>>], None, TRUE, FALSE, <<>>)
                   EXCEPT !.value =
                       LET first == RunScript(spec, exists, ok1)
                       IN  <<first, RunScript(spec, first.exists, ok2)>>]
    /\ UNCHANGED <<ssh, account, servers, clients, monitors, sessions,
                   nextJob, node_of, now, run>>

\* --------------------------------------------------------------- the clock
\* the readings of time.time() the runs go through
MaxTime == 3

\* time passes between two calls
Tick ==
    /\ run.pc = "idle"
    /\ now < MaxTime
    /\ now' = now + 1
    /\ UNCHANGED <<ssh, account, servers, clients, monitors, sessions,
                   nextJob, node_of, run, last>>

\* ------------------------------------------------------- specifications
\* recipes with a service block only, and with a client block only
ServiceRecipes == {r \in Recipes : r.service # "none" /\ r.client = "none"}
ClientRecipes == {r \in Recipes : r.service = "none" /\ r.client # "none"}

\* two submissions: every step succeeds, and the upload fails
SubmitBasic(n) ==
    {o \in SubmitOutcomes(n) :
        \/ o.upload = "fail"
        \/ o.sbatch.stdout = <<AckLine(n)>> /\ o.rm = "0"}

\* the service manager: services are started and stopped by reference
Next ==
    \/ \E recipe \in ServiceRecipes, id \in Ids, o \in SubmitBasic(nextJob) :
          StartService(recipe, id, o, MaxJobs)
    \/ \E ref \in Refs, c \in ExecOutcomes, live \in LiveOutcomes :
          StopService(ref, c, live)

Spec == Init /\ [][Next]_vars

\* the service manager: services are started, the scheduler places them,
\* and their host is asked for
HostNext ==
    \/ \E recipe \in ServiceRecipes, id \in Ids, o \in SubmitBasic(nextJob) :
          StartService(recipe, id, o, MaxJobs)
    \/ AssignNode
    \/ \E ref \in Refs, g \in GrepOutcomes : GetServiceHost(ref, g)

HostSpec == Init /\ [][HostNext]_vars

\* the three start operations under every outcome of the submission
StartNext ==
    \/ \E recipe \in ServiceRecipes, id \in Ids, o \in SubmitOutcomes(nextJob) :
          StartService(recipe, id, o, MaxJobs)
    \/ \E recipe \in ClientRecipes, id \in Ids, o \in SubmitOutcomes(nextJob) :
          StartClient(recipe, id, o, MaxJobs)
    \/ \E recipe \in ServiceRecipes, id \in Ids, o \in SubmitOutcomes(nextJob) :
          StartMonitor(recipe, id, o, MaxJobs)

StartSpec == Init /\ [][StartNext]_vars

\* answers in which squeue lists queued and running jobs and sacct knows
\* every job that has left the queue
LiveStates == {"PENDING", "RUNNING"}

RefreshOutcomes ==
    {q \in StatusOutcomes :
        /\ q.squeue \in SlurmStates => q.squeue \in LiveStates
        /\ q.sacct \in SlurmStates => q.sacct \notin LiveStates}

\* ids drawn in the runs of several managers: one pair can collide
FewIds == {id \in Ids : id[1] = "1"}

\* the queue query of stop_service is not reached for a tracked id
NoLive == [kind |-> "none", job_id |-> None]

\* the three managers: jobs are started, and tracked jobs are refreshed and
\* stopped by id
RefreshNext ==
    \/ \E recipe \in ServiceRecipes, id \in FewIds, o \in SubmitBasic(nextJob) :
          StartService(recipe, id, o, MaxRefreshJobs)
    \/ \E recipe \in ClientRecipes, id \in FewIds, o \in SubmitBasic(nextJob) :
          StartClient(recipe, id, o, MaxRefreshJobs)
    \/ \E recipe \in ServiceRecipes, id \in FewIds, o \in SubmitBasic(nextJob) :
          StartMonitor(recipe, id, o, MaxRefreshJobs)
    \/ \E id \in Keys(servers), q \in RefreshOutcomes :
          CheckServiceStatus(id, q)
    \/ \E id \in Keys(clients), q \in RefreshOutcomes :
          CheckClientStatus(id, q)
    \/ \E id \in Keys(monitors), q \in RefreshOutcomes :
          CheckMonitorStatus(id, q)
    \/ \E id \in Keys(servers), c \in ExecOutcomes : StopService(id, c, NoLive)
    \/ \E id \in Keys(clients), c \in ExecOutcomes : StopClient(id, c)
    \/ \E id \in Keys(monitors), c \in ExecOutcomes : StopMonitor(id, c)

RefreshSpec == Init /\ [][RefreshNext]_vars

\* the client manager: clients that name the service they target are
\* started, refreshed and stopped
ClientNext ==
    \/ \E recipe \in TargetedRecipes, id \in FewIds,
          o \in SubmitBasic(nextJob) : StartClient(recipe, id, o, MaxJobs)
    \/ \E id \in Keys(clients), q \in RefreshOutcomes :
          CheckClientStatus(id, q)
    \/ \E id \in Keys(clients), c \in ExecOutcomes : StopClient(id, c)

ClientSpec == Init /\ [][ClientNext]_vars

\* tracking: services and clients are started and refreshed, the scheduler
\* places jobs, finished entries are swept and the tables are cleared
TrackNext ==
    \/ \E recipe \in ServiceRecipes, id \in FewIds, o \in SubmitBasic(nextJob) :
          StartService(recipe, id, o, MaxRefreshJobs)
    \/ \E recipe \in ClientRecipes, id \in FewIds, o \in SubmitBasic(nextJob) :
          StartClient(recipe, id, o, MaxRefreshJobs)
    \/ \E id \in Keys(servers), q \in RefreshOutcomes :
          CheckServiceStatus(id, q)
    \/ \E id \in Keys(clients), q \in RefreshOutcomes :
          CheckClientStatus(id, q)
    \/ AssignNode
    \/ CleanupCompletedServices
    \/ CleanupCompletedClients
    \/ ClearAllState

TrackSpec == Init /\ [][TrackNext]_vars

\* the answers without a node list, which the service and the client
\* manager do not read
ListOutcomes == {q \in RefreshOutcomes : q.nodes = ""}

\* listing: services and clients are started and the running ones listed
ListNext ==
    \/ \E recipe \in ServiceRecipes, id \in FewIds, o \in SubmitBasic(nextJob) :
          StartService(recipe, id, o, MaxJobs)
    \/ \E recipe \in ClientRecipes, id \in FewIds, o \in SubmitBasic(nextJob) :
          StartClient(recipe, id, o, MaxJobs)
    \/ \E qs \in [1..Len(servers) -> ListOutcomes] :
          ListRunningServices(qs)
    \/ \E qs \in [1..Len(clients) -> ListOutcomes] :
          ListRunningClients(qs)

ListSpec == Init /\ [][ListNext]_vars

\* exit codes of scancel, job by job
CancelOutcomes == [JobIds -> {"0", "1"}]

\* stopping everything: services are started, forgotten by a clearing, and
\* all stopped at once
StopAllNext ==
    \/ \E recipe \in ServiceRecipes, id \in FewIds, o \in SubmitBasic(nextJob) :
          StartService(recipe, id, o, MaxJobs)
    \/ ClearAllState
    \/ \E cs \in CancelOutcomes, queue \in QueueOutcomes :
          StopAllServices(cs, queue)

StopAllSpec == Init /\ [][StopAllNext]_vars

\* endpoint resolution under every combination of its arguments
EndpointNext == \E a \in EndpointArgs : ResolveEndpoint(a)

EndpointSpec == Init /\ [][EndpointNext]_vars

\* the factory under every recipe and both sets of imports
FactoryNext ==
    \/ \E recipe \in FactoryRecipes, sreg \in ServiceRegistries,
          creg \in ClientRegistries : CreateService(recipe, sreg, creg)
    \/ \E recipe \in FactoryRecipes, sreg \in ServiceRegistries,
          creg \in ClientRegistries : CreateClient(recipe, sreg, creg)

FactorySpec == Init /\ [][FactoryNext]_vars

\* scripts rendered for every job of Jobs
ScriptNext == \E job \in Jobs : GenerateScript(job)

ScriptSpec == Init /\ [][ScriptNext]_vars

\* rendered scripts run twice, with every outcome of the builds
BuildNext ==
    \E spec \in BuildSpecs, exists \in BOOLEAN, ok1 \in BOOLEAN, ok2 \in BOOLEAN :
        RunTwice(spec, exists, ok1, ok2)

BuildSpec == Init /\ [][BuildNext]_vars

\* a tracked job over time: it is started, refreshed and stopped while
\* the clock advances
TimeNext ==
    \/ \E recipe \in ServiceRecipes, id \in FewIds, o \in SubmitBasic(nextJob) :
          StartService(recipe, id, o, MaxRefreshJobs)
    \/ \E recipe \in ClientRecipes, id \in FewIds, o \in SubmitBasic(nextJob) :
          StartClient(recipe, id, o, MaxRefreshJobs)
    \/ \E id \in Keys(servers), q \in RefreshOutcomes :
          CheckServiceStatus(id, q)
    \/ \E id \in Keys(clients), q \in RefreshOutcomes :
          CheckClientStatus(id, q)
    \/ \E id \in Keys(servers), c \in ExecOutcomes : StopService(id, c, NoLive)
    \/ \E id \in Keys(clients), c \in ExecOutcomes : StopClient(id, c)
    \/ Tick

TimeSpec == Init /\ [][TimeNext]_vars

\* the orchestrator: sessions are started and stopped, and the scheduler
\* places a job while a session waits for its host.  The ids a session
\* stops are tracked or the manager is in local mode, so the queue query of
\* stop_service is not reached.
SessionNext ==
    \/ \E recipe \in Recipes, id \in FewIds, o \in SubmitBasic(nextJob) :
          SessionBegin(recipe, id, o, MaxSessions)
    \/ \E g \in GrepOutcomes : SessionResolve(g)
    \/ \E id \in FewIds, o \in SubmitBasic(nextJob) : SessionClient(id, o)
    \/ \E k \in 1..MaxSessions, cc \in ExecOutcomes, cs \in ExecOutcomes :
          StopBenchmarkSession(k, cc, cs, NoLive)
    \/ run.pc = "resolve" /\ AssignNode

SessionSpec == Init /\ [][SessionNext]_vars

\* recipes of a registered service, alone or with a client for it
OllamaRecipes == {r \in Recipes : r.service = "ollama"}

\* sessions one after another: a session may fail at its client, further
\* sessions are started, and stored sessions are stopped
FurtherNext ==
    \/ \E recipe \in OllamaRecipes, id \in FewIds, o \in SubmitBasic(nextJob) :
          SessionBegin(recipe, id, o, MaxSessions + 1)
    \/ \E g \in GrepOutcomes : SessionResolve(g)
    \/ \E id \in FewIds, o \in SubmitBasic(nextJob) : SessionClient(id, o)
    \/ \E k \in 1..MaxSessions + 1, c \in ExecOutcomes :
          StopBenchmarkSession(k, c, c, NoLive)

FurtherSpec == Init /\ [][FurtherNext]_vars

\* ------------------------------------------------------------- properties
\* the same tracked job before and after a step: same internal id, same
\* scheduler job id
SameJob(a, b) == a.service_id = b.service_id /\ a.job_id = b.job_id

\* the status moves the lifecycle allows
AllowedStep(a, b) ==
    \/ a = b
    \/ a = PENDING /\ b \in {RUNNING, CANCELLED, FAILED}
    \/ a = RUNNING /\ b \in {COMPLETED, FAILED, CANCELLED}

StatusSteps(tab, tab2) ==
    \A i \in 1..Len(tab), j \in 1..Len(tab2) :
        SameJob(tab[i], tab2[j]) => AllowedStep(tab[i].status, tab2[j].status)

\* C1: in every manager, over any start, refresh and stop calls and any
\* scheduler answers, the status of a tracked job only moves
\* Pending->Running, Running->{Completed, Failed, Cancelled} or
\* Pending->{Cancelled, Failed}; a terminal status never changes again.
C1_StatusOnlyMovesForward ==
    [][/\ StatusSteps(servers, servers')
       /\ StatusSteps(clients, clients')
       /\ StatusSteps(monitors, monitors')]_vars

AllHaveJob(tab) == \A i \in 1..Len(tab) : tab[i].job_id # None

\* what a start call must do to its manager's table
StartTracks(op, tab, tab2) ==
    last'.op = op =>
        /\ AllHaveJob(tab2)
        /\ last'.raised => tab2 = tab
        /\ (~last'.raised /\ ssh) =>
              /\ nextJob' = nextJob + 1
              /\ Len(tab2) = Len(tab) + 1
              /\ \A i \in 1..Len(tab) : tab2[i] = tab[i]
              /\ last'.ret_id \in Keys(tab2)
              /\ Get(tab2, last'.ret_id).status = PENDING
              /\ Get(tab2, last'.ret_id).job_id = JobIdStr(nextJob)

\* C2: a start_service / start_client / start_monitor whose submission
\* succeeds adds exactly one entry to the manager's table, Pending, with the
\* scheduler's job id, under the returned internal id; one whose submission
\* fails raises and leaves the table as it was; every tracked entry has a
\* scheduler job id.
C2_StartTracksExactlyOne ==
    [][/\ StartTracks("start_service", servers, servers')
       /\ StartTracks("start_client", clients, clients')
       /\ StartTracks("start_monitor", monitors, monitors')]_vars

\* C3: for a tracked service get_service_host returns None while the
\* scheduler has assigned no node; once the scheduler reports node N the call
\* returns N and stores it in the entry, and with a stored node it returns
\* that node without a scheduler query.
C3_HostResolvedAndCached ==
    [][(last'.op = "get_service_host" /\ last'.arg \in Keys(servers) /\ ssh) =>
          LET info == Get(servers, last'.arg)
              N == NodeOfJob(info.job_id)
          IN  IF info.nodes # None
              THEN last'.slurm_state = info.nodes[1] /\ last'.cmds = <<>>
              ELSE IF N = "" THEN last'.slurm_state = ""
              ELSE /\ last'.slurm_state = N
                   /\ Get(servers', last'.arg).nodes = <<N>>]_vars

\* the get_service_host calls among the manager calls of a session start
HostIdx(calls) == {i \in 1..Len(calls) : calls[i].op = "get_service_host"}

\* at most 6 attempts, none after one that returned a host
BoundedAttempts(calls) ==
    /\ Cardinality(HostIdx(calls)) <= 6
    /\ \A i \in HostIdx(calls) :
          calls[i].ok => \A j \in HostIdx(calls) : j <= i

Paired(recipe) == recipe.service # "none" /\ recipe.client # "none"

\* C4: in start_benchmark_session on a recipe with a service and a client
\* block, the host is asked for at most 6 times and not again after an
\* attempt returned one; the client start is attempted afterwards, with the
\* host found, or with None after 6 attempts that returned nothing.
C4_HostResolutionBounded ==
    /\ run.attempt <= 6
    /\ BoundedAttempts(run.calls)
    /\ (/\ last.op = "start_benchmark_session"
        /\ Paired(last.recipe)
        /\ last.calls[1].ok) =>
          LET calls == last.calls
              n == Len(calls)
              found == {i \in HostIdx(calls) : calls[i].ok}
          IN  /\ BoundedAttempts(calls)
              /\ HostIdx(calls) = 2..(n - 1)
              /\ calls[n].op = "start_client"
              /\ found = {} => Cardinality(HostIdx(calls)) = 6
              /\ found = {} => calls[n].host = ""
              /\ \A i \in found : calls[n].host = calls[i].host

\* a session start that asked 6 times in vain and then started the client
\* without a host
C4_Witness ==
    /\ last.op = "start_benchmark_session"
    /\ Paired(last.recipe)
    /\ Cardinality(HostIdx(last.calls)) = 6
    /\ \A i \in HostIdx(last.calls) : ~last.calls[i].ok
    /\ last.calls[Len(last.calls)].op = "start_client"
    /\ last.calls[Len(last.calls)].ok
    /\ last.calls[Len(last.calls)].host = ""

\* the jobs a call asked the scheduler to cancel, and whether it searched
\* the scheduler's queue by name
Cancels(cmds) == {cmds[i][2] : i \in {k \in 1..Len(cmds) : cmds[k][1] = "scancel"}}

QueueSearched(cmds) == \E i \in 1..Len(cmds) : cmds[i][1] = "squeue_grep"

Least(S) == CHOOSE k \in S : \A m \in S : k <= m

\* what stop_service must do once its reference is resolved to the job
\* cand of the tracked entry at position at (0: no tracked entry), or to
\* nothing (cand = None) within the tracked entries
StopResolves(tab, tab2, cand, at) ==
    /\ ~last'.raised
    /\ Len(tab2) = Len(tab)
    /\ \A i \in 1..Len(tab) : i # at => tab2[i] = tab[i]
    /\ at # 0 =>
          IF last'.ret_ok
          THEN tab2[at] = [tab[at] EXCEPT !.status = CANCELLED,
                                          !.completed_at = now]
          ELSE tab2[at] = tab[at]
    /\ cand # None =>
          /\ ~QueueSearched(last'.cmds)
          /\ last'.cmds = IF ssh THEN <<Cmd("scancel", cand)>> ELSE <<>>
    /\ cand = None =>
          /\ tab2 = tab
          /\ ssh => QueueSearched(last'.cmds)
          /\ Cardinality(Cancels(last'.cmds)) <= 1
          /\ Len(last'.cmds) <= 2
          /\ Cancels(last'.cmds) = {} => ~last'.ret_ok
          /\ ~ssh => last'.cmds = <<>>

\* C5: stop_service(reference) tries, in this order, the tracked internal
\* id equal to the reference, the tracked entry whose scheduler job id
\* equals it, the first tracked entry whose id contains it, and a search of
\* the scheduler's queue by name; only the first candidate is cancelled,
\* and without a candidate the call returns False, cancels nothing and does
\* not raise.
C5_ResolutionOrder ==
    [][last'.op = "stop_service" =>
          LET ref == last'.arg
              byJob == {i \in 1..Len(servers) : servers[i].job_id = ref}
              byName == {i \in 1..Len(servers) :
                            Contains(servers[i].service_id, ref)}
              at == IF ref \in Keys(servers) THEN IndexOf(servers, ref)
                    ELSE IF byJob # {} THEN Least(byJob)
                    ELSE IF byName # {} THEN Least(byName)
                    ELSE 0
              cand == IF at = 0 THEN None ELSE servers[at].job_id
          IN  StopResolves(servers, servers', cand, at)]_vars

\* C5 as the code has it: after the tracked internal id, a reference made of
\* digits only is itself the scheduler job id to cancel, whether or not a
\* tracked entry has that job id (the first such entry is the one marked),
\* and is never matched against ids or searched in the queue; any other
\* reference goes on to the first tracked entry whose id contains it and
\* then to the queue search.
C5_ResolutionOrderDigits ==
    [][last'.op = "stop_service" =>
          LET ref == last'.arg
              byJob == {i \in 1..Len(servers) : servers[i].job_id = ref}
              byName == {i \in 1..Len(servers) :
                            Contains(servers[i].service_id, ref)}
              at == IF ref \in Keys(servers) THEN IndexOf(servers, ref)
                    ELSE IF ~ssh THEN 0
                    ELSE IF IsDigit(ref)
                         THEN (IF byJob # {} THEN Least(byJob) ELSE 0)
                    ELSE IF byName # {} THEN Least(byName)
                    ELSE 0
              cand == IF at # 0 THEN servers[at].job_id
                      ELSE IF ssh /\ IsDigit(ref) THEN ref
                      ELSE None
          IN  StopResolves(servers, servers', cand, at)]_vars

\* a reference that two tracked ids contain: the first entry's job was
\* cancelled, the second entry is untouched
C5_Witness ==
    /\ last.op = "stop_service"
    /\ last.ret_ok
    /\ last.arg \notin Keys(servers)
    /\ ~IsDigit(last.arg)
    /\ Len(servers) = 2
    /\ \A i \in 1..2 : Contains(servers[i].service_id, last.arg)
    /\ last.cmds = <<Cmd("scancel", servers[1].job_id)>>
    /\ servers[1].status = CANCELLED
    /\ servers[2].status = PENDING

\* C6: stop_service with a reference equal to a tracked internal id cancels
\* that entry's job and no other, changes no other entry, and does not go on
\* to matching by job id or by name or to the queue search.
C6_ExactIdStopsOnlyThatJob ==
    [][(last'.op = "stop_service" /\ last'.arg \in Keys(servers)) =>
          LET at == IndexOf(servers, last'.arg)
          IN  /\ Cancels(last'.cmds) \subseteq {servers[at].job_id}
              /\ ~QueueSearched(last'.cmds)
              /\ Len(servers') = Len(servers)
              /\ \A i \in 1..Len(servers) : i # at => servers'[i] = servers[i]
              /\ last'.ret_ok => servers'[at].status = CANCELLED]_vars

\* a tracked id made of digits only was stopped: its own job was cancelled
\* and the other tracked entry is still Pending
C6_Witness ==
    /\ last.op = "stop_service"
    /\ last.arg \in Keys(servers)
    /\ IsDigit(last.arg)
    /\ last.ret_ok
    /\ Len(servers) = 2
    /\ Get(servers, last.arg).status = CANCELLED
    /\ last.cmds = <<Cmd("scancel", Get(servers, last.arg).job_id)>>
    /\ \E i \in 1..2 : servers[i].service_id # last.arg
                       /\ servers[i].status = PENDING

\* a refresh whose get_job_status returned None: the status query was
\* issued and found the job in neither view
AbsentRefresh(op, tab, tab2) ==
    (last'.op = op /\ last'.arg \in Keys(tab) /\ last'.cmds # <<>>
       /\ ~last'.ret_ok) =>
        LET at == IndexOf(tab, last'.arg)
        IN  /\ Len(tab2) = Len(tab)
            /\ \A i \in 1..Len(tab) : i # at => tab2[i] = tab[i]
            /\ IF tab[at].status \in {PENDING, RUNNING}
               THEN /\ tab2[at].status = COMPLETED
                    /\ tab2[at].completed_at # 0
                    /\ tab2[at] = [tab[at] EXCEPT
                                      !.status = COMPLETED,
                                      !.completed_at = tab2[at].completed_at]
               ELSE tab2[at] = tab[at]

\* C7: in the service and client managers a refresh that finds the job in
\* neither the queue nor the accounting history makes a Pending or Running
\* entry Completed, with completed_at set, and leaves a Completed, Failed
\* or Cancelled entry as it is.
C7_AbsentJobCompletes ==
    [][/\ AbsentRefresh("check_service_status", servers, servers')
       /\ AbsentRefresh("check_client_status", clients, clients')]_vars

\* a Pending service whose job was in neither view is now Completed
C7_Witness ==
    /\ last.op = "check_service_status"
    /\ ~last.ret_ok
    /\ last.cmds = <<Cmd("squeue", Get(servers, last.arg).job_id),
                     Cmd("sacct", Get(servers, last.arg).job_id)>>
    /\ Get(servers, last.arg).status = COMPLETED
    /\ Get(servers, last.arg).started_at = 0
    /\ Get(servers, last.arg).completed_at # 0

\* a refresh that was answered with a state outside the five names
UnknownStateRefresh(op, tab, tab2) ==
    (/\ last'.op = op
     /\ last'.arg \in Keys(tab)
     /\ last'.ret_ok
     /\ last'.slurm_state \notin {"PENDING", "RUNNING", "COMPLETED",
                                  "FAILED", "CANCELLED"}) =>
        Get(tab2, last'.arg).status = FAILED

\* C8: a refresh answered with a state string other than PENDING, RUNNING,
\* COMPLETED, FAILED, CANCELLED (TIMEOUT, NODE_FAIL, 'CANCELLED by <uid>')
\* leaves the entry Failed.
C8_UnknownStateIsFailed ==
    [][/\ UnknownStateRefresh("check_service_status", servers, servers')
       /\ UnknownStateRefresh("check_client_status", clients, clients')
       /\ UnknownStateRefresh("check_monitor_status", monitors, monitors')]_vars

\* C9: stop_benchmark_session on a known session calls stop_client for each
\* listed client and then stop_service for each listed service, all of them
\* whatever the earlier ones returned, does not raise, and returns True
\* exactly when every one of these calls returned True.
C9_StopsClientsThenServices ==
    \A k \in 1..Len(sessions) :
        (last.op = "stop_benchmark_session" /\ last.arg = SessionId(k)) =>
            LET cl == sessions[k].clients
                sv == sessions[k].services
                calls == last.calls
            IN  /\ ~last.raised
                /\ Len(calls) = Len(cl) + Len(sv)
                /\ \A i \in 1..Len(cl) :
                      calls[i].op = "stop_client" /\ calls[i].arg = cl[i]
                /\ \A i \in 1..Len(sv) :
                      /\ calls[Len(cl) + i].op = "stop_service"
                      /\ calls[Len(cl) + i].arg = sv[i]
                /\ last.ret_ok = (\A i \in 1..Len(calls) : calls[i].ok)

\* the client's stop failed, the service was stopped all the same, and the
\* call returned False
C9_Witness ==
    /\ last.op = "stop_benchmark_session"
    /\ Len(last.calls) = 2
    /\ last.calls[1].op = "stop_client" /\ ~last.calls[1].ok
    /\ last.calls[2].op = "stop_service" /\ last.calls[2].ok
    /\ ~last.ret_ok
    /\ ~last.raised

\* C10: when submit_slurm_job has returned, with a job id or with None,
\* neither the local temporary script nor the remote copy exists.
C10_NoResidualFiles ==
    last.op \in {"start_service", "start_client", "start_monitor"} =>
        last.residue = {}

\* the lines 'Submitted batch job <digits>' of an sbatch output
AckLinesOf(stdout) ==
    {i \in 1..Len(stdout) :
        /\ Len(stdout[i]) = 4
        /\ SubSeq(stdout[i], 1, 3) = <<<<"Submitted">>, <<"batch">>, <<"job">>>>
        /\ IsDigit(stdout[i][4])}

\* C11: submit_slurm_job returns a job id exactly when the upload succeeded,
\* chmod exited 0, sbatch exited 0 and printed a line 'Submitted batch job
\* <digits>', and it returns those digits; in every other case it returns
\* None.
C11_JobIdExactlyOnAcceptance ==
    (/\ last.op \in {"start_service", "start_client", "start_monitor"}
     /\ last.submit.upload # "-") =>
        LET o == last.submit
            acks == AckLinesOf(o.sbatch.stdout)
        IN  IF /\ o.upload = "ok"
               /\ o.chmod = "0"
               /\ o.sbatch.exit = "0"
               /\ acks # {}
            THEN \E i \in acks : last.job_id = o.sbatch.stdout[i][4]
            ELSE last.job_id = None

\* the table tab2 is tab with one entry added under id, Pending
GainsOne(tab, tab2, id) ==
    /\ Len(tab2) = Len(tab) + 1
    /\ \A i \in 1..Len(tab) : tab2[i] = tab[i]
    /\ tab2[Len(tab2)].service_id = id
    /\ tab2[Len(tab2)].status = PENDING

\* C12: a start_benchmark_session that succeeds on a recipe with a service
\* and a client block adds exactly one entry to the service manager's table
\* and exactly one to the client manager's, and the stored session lists
\* exactly those two internal ids.
C12_SessionTracksTwo ==
    [][/\ (run.pc = "idle" /\ run'.pc # "idle" /\ Paired(run'.recipe)) =>
             /\ Len(run'.services) = 1
             /\ GainsOne(servers, servers', run'.services[1])
             /\ clients' = clients
       /\ (run.pc = "resolve" /\ run'.pc # "idle") =>
             servers' = servers /\ clients' = clients
       /\ (/\ run.pc # "idle" /\ run'.pc = "idle"
           /\ Paired(run.recipe) /\ last'.ret_ok) =>
             /\ servers' = servers
             /\ Len(sessions') = Len(sessions) + 1
             /\ sessions'[Len(sessions')].services = run.services
             /\ Len(sessions'[Len(sessions')].clients) = 1
             /\ GainsOne(clients, clients', sessions'[Len(sessions')].clients[1])
      ]_vars

\* the words w appear in this order, next to each other, in the line
HasWords(line, w) ==
    \E i \in 0..(Len(line) - Len(w)) : SubSeq(line, i + 1, i + Len(w)) = w

\* C13: in start_benchmark_session on the paired ollama recipe, when the
\* scheduler has given the service's job a node N while the host was still
\* being resolved, the client script that is submitted has the line
\* 'export TARGET_SERVICE_HOST=N' and its container command has
\* '--endpoint=http://N:11434'.
C13_ClientScriptCarriesHost ==
    [][(/\ run.pc = "client" /\ run'.pc = "idle"
        /\ run.recipe = [service |-> "ollama", client |-> "ollama_benchmark"]
        /\ run.services # <<>>
        /\ run.services[1] \in Keys(servers)
        /\ NodeOfJob(Get(servers, run.services[1]).job_id) # ""
        /\ ssh)
       => LET N == NodeOfJob(Get(servers, run.services[1]).job_id)
              script == last'.script
          IN  /\ \E i \in 1..Len(script) :
                     script[i] = <<"export TARGET_SERVICE_HOST=", N>>
              /\ \E i \in 1..Len(script) :
                     HasWords(script[i], <<" --endpoint=", "http", "://", N,
                                          ":", "11434">>)]_vars

\* C14: start_client on a recipe whose client.target_service.name has no
\* registered client implementation raises while the client job is built:
\* no script reaches the scheduler and the tracking table is unchanged.
C14_UnknownTargetFailsAtConstruction ==
    [][(last'.op = "start_client"
        /\ last'.recipe.target \notin ClientRegistry)
       => /\ last'.raised
          /\ last'.cmds = <<>>
          /\ clients' = clients]_vars

\* C15: when the configuration has no scheduler account, each of
\* start_service, start_client and start_monitor raises while the script is
\* rendered: no remote command is issued and no table gains an entry.
C15_NoAccountFailsBeforeRemote ==
    [][(last'.op \in {"start_service", "start_client", "start_monitor"}
        /\ ~account)
       => /\ last'.raised
          /\ last'.cmds = <<>>
          /\ servers' = servers /\ clients' = clients
          /\ monitors' = monitors]_vars

\* C16: clear_all_state issues no scancel and no other remote command; it
\* empties the service and client tables and touches nothing else, so the
\* jobs the scheduler has accepted and the nodes it gave them are the same
\* after the call as before.
C16_ClearOnlyForgets ==
    [][(/\ last'.op = "clear_all_state"
        /\ (last' # last \/ servers' # servers \/ clients' # clients))
       => /\ last'.cmds = <<>>
          /\ last'.cleared = <<Len(servers), Len(clients)>>
          /\ servers' = <<>> /\ clients' = <<>>
          /\ nextJob' = nextJob /\ node_of' = node_of
          /\ monitors' = monitors /\ sessions' = sessions]_vars

\* a clearing that forgot a tracked job the scheduler had placed on a node
C16_Witness ==
    /\ last.op = "clear_all_state"
    /\ last.cleared[1] + last.cleared[2] > 0
    /\ nextJob > 1
    /\ node_of[1] # ""
    /\ servers = <<>> /\ clients = <<>>

\* the entry tab[i] is still in tab2, for the same job
Kept(tab, tab2, i) == \E j \in 1..Len(tab2) : SameJob(tab[i], tab2[j])

\* entries leave the table only in a cleanup call and only when terminal
OnlySwept(tab, tab2, op, sweep) ==
    \A i \in 1..Len(tab) :
        ~Kept(tab, tab2, i) => tab[i].status \in Terminal /\ op = sweep

\* C17: whatever the operation, a tracked entry leaves its table only in a
\* cleanup call and only while it is Completed, Failed or Cancelled; a
\* Pending or Running entry is neither removed nor replaced.
C17_RemovedOnlyWhenTerminal ==
    [][/\ OnlySwept(servers, servers', last'.op, "cleanup_completed_services")
       /\ OnlySwept(clients, clients', last'.op,
                    "cleanup_completed_clients")]_vars

\* the start call op tracked its job under an id the table already held
ReusesId(op, tab, tab2) ==
    /\ last'.op = op
    /\ ~last'.raised
    /\ last'.job_id # None
    /\ tab2 # tab
    /\ last'.ret_id \in Keys(tab)

\* C18: generate_id never returns a value it returned before, so no start
\* call stores its new JobInfo under an internal id that is tracked
\* already.
C18_IdsNeverReused ==
    [][/\ ~ReusesId("start_service", servers, servers')
       /\ ~ReusesId("start_client", clients, clients')
       /\ ~ReusesId("start_monitor", monitors, monitors')]_vars

\* scheduler states of a job that will not run again
SlurmTerminal == SlurmStates \ LiveStates

\* the listing op over the table tab: every tracked entry was asked about,
\* the ids returned are those of the entries now pending or running, and
\* none of them is an id the scheduler reported as terminal
ListsTheLive(op, tab) ==
    last.op = op =>
        /\ ssh => /\ Len(last.calls) = Len(tab)
                  /\ \A i \in 1..Len(tab) :
                         last.calls[i].id = tab[i].service_id
        /\ last.listed = ActiveIds(tab)
        /\ \A i \in 1..Len(last.calls) :
               (last.calls[i].found /\ last.calls[i].state \in SlurmTerminal)
               => \A j \in 1..Len(last.listed) :
                      last.listed[j] # last.calls[i].id

\* C19: list_running_services and list_running_clients refresh every
\* tracked entry against the scheduler and return exactly the ids whose
\* refreshed status is Pending or Running; an id whose job the scheduler
\* reports in a terminal state is not returned.
C19_ListsOnlyLiveJobs ==
    /\ ListsTheLive("list_running_services", servers)
    /\ ListsTheLive("list_running_clients", clients)

\* C20: stop_all_services tries to stop every service of the comprehensive
\* list, whatever happened to the ones before: the stopped and the failed
\* count add up to the total, and the report holds one result per service.
C20_StopAllReportsEachService ==
    last.op = "stop_all_services" =>
        /\ last.report.total = Len(last.calls)
        /\ last.report.stopped + last.report.failed = last.report.total
        /\ Len(last.report.results) = last.report.total

\* the port the claim speaks of: target_service.port, else the default of
\* the call, else the default of the class
DefaultPortOf(impl) ==
    CASE impl = "OllamaClient" -> "11434"
      [] impl = "MySQLClient" -> "3306"
      [] OTHER -> "8080"

ExpectedPort(a) ==
    PortOr(a.port, IF a.default_port # "" THEN a.default_port
                   ELSE DefaultPortOf(a.impl))

\* C21: in every client implementation resolve_service_endpoint returns the
\* endpoint given in the parameters when there is one; else, with a target
\* host, protocol://host:port with the port of target_service or the
\* default port; and no endpoint (None) when there is neither.
C21_EndpointPrecedence ==
    last.op = "resolve_service_endpoint" =>
        LET a == last.arg
        IN  last.value =
                IF a.endpoint # None THEN a.endpoint
                ELSE IF a.host # ""
                THEN Endpoint(a.protocol, a.host, ExpectedPort(a))
                ELSE None

\* C22: the client create_client builds for target 'ollama' with port P
\* and no endpoint parameter resolves host H to 'http://H:P', and resolves
\* without a host to 'http://${TARGET_SERVICE_HOST}:P'.
C22_OllamaEndpointWithPlaceholder ==
    (/\ last.op = "resolve_service_endpoint"
     /\ last.arg.impl = "OllamaClient"
     /\ last.arg.endpoint = None
     /\ last.arg.port # ""
     /\ last.arg.protocol = "http")
    => last.value =
          <<"http", "://",
            IF last.arg.host # "" THEN last.arg.host ELSE Placeholder,
            ":", last.arg.port>>

\* the factory call op looked up name in reg: a registered name gives the
\* class of that name; any other raises an error whose message carries the
\* name; the registries are what they were
LooksUp(op, kind, name, reg) ==
    last.op = op =>
        /\ name \in reg => ~last.raised /\ last.value.class = <<kind, name>>
        /\ name \notin reg =>
              /\ last.raised
              /\ \E i \in 1..Len(last.value.message) :
                     last.value.message[i] = name
        /\ last.value.sreg = last.arg.sreg
        /\ last.value.creg = last.arg.creg

\* C23: create_client chooses the class by client.target_service.name, not
\* by the client's own name, and raises an error naming the target when it
\* is not registered (a missing or empty target_service is looked up as
\* 'unknown'); create_service does the same with the service name; the
\* registries are unchanged.
C23_FactoryLooksUpTarget ==
    /\ LooksUp("create_client", "client",
               IF last.arg.recipe.target \in {"missing", "empty"}
               THEN "unknown" ELSE last.arg.recipe.target,
               last.arg.creg)
    /\ LooksUp("create_service", "service",
               IF last.arg.recipe.service = "missing"
               THEN "unknown" ELSE last.arg.recipe.service,
               last.arg.sreg)

\* a client named after a registered class whose target is not registered
C23_Witness ==
    /\ last.op = "create_client"
    /\ last.arg.recipe.client_name \in last.arg.creg
    /\ last.arg.recipe.target = "redis"
    /\ last.raised

\* the flags under which a resources key may appear as a directive
FlagsOf(key) ==
    CASE key = "time" -> {"--time"}
      [] key = "account" -> {"--account"}
      [] key = "mem" -> {"--mem"}
      [] key = "cpus" -> {"--cpus", "--cpus-per-task"}

\* line carries key with value, as a directive or as an export
Carries(line, key, value) ==
    \/ Len(line) = 4 /\ line[1] = "#SBATCH" /\ line[2] \in FlagsOf(key)
          /\ line[4] = value
    \/ Len(line) = 4 /\ line[1] = "export" /\ line[2] = key /\ line[4] = value

JobNameLines(script) ==
    {i \in 1..Len(script) :
        Len(script[i]) > 1 /\ script[i][2] = "--job-name"}

\* C24: a rendered script has exactly one --job-name directive, equal to
\* <name>_<internalId>, and carries every key the recipe's resources supply
\* with the recipe's value, as an #SBATCH line or an export.
C24_ScriptCarriesResources ==
    (last.op = "generate_slurm_script" /\ ~last.raised) =>
        /\ \E i \in 1..Len(last.script) :
              /\ JobNameLines(last.script) = {i}
              /\ last.script[i] = <<"#SBATCH", "--job-name", "=",
                                    last.arg.name, "_", last.arg.job_id>>
        /\ \A key \in ResourceKeys :
              last.arg.resources[key] # "" =>
                 \E i \in 1..Len(last.script) :
                    Carries(last.script[i], key, last.arg.resources[key])

\* C25: with a build source and a fixed image path, a second run of the
\* rendered script builds nothing once the image file exists, and a run
\* whose build fails exits with status 1.
C25_BuildOnlyOnce ==
    (last.op = "run_script" /\ last.arg.spec.docker_source) =>
        /\ last.value[1].exists => last.value[2].builds = 0
        /\ \A i \in 1..2 :
              (last.value[i].builds > 0 /\ ~last.arg.ok[i]) =>
                 last.value[i].exit = 1

\* the entry of the same job in before and after keeps the timestamps it
\* has
StampsKept(before, after) ==
    \A id \in Keys(before) \cap Keys(after) :
        Get(after, id).job_id = Get(before, id).job_id =>
            /\ Get(before, id).started_at # 0 =>
                  Get(after, id).started_at = Get(before, id).started_at
            /\ Get(before, id).completed_at # 0 =>
                  Get(after, id).completed_at = Get(before, id).completed_at

\* C26: once started_at or completed_at of a tracked entry is set, no later
\* refresh or stop call changes it.
C26_TimestampsSetOnce ==
    [][StampsKept(servers, servers') /\ StampsKept(clients, clients')]_vars

\* the service manager's refresh of entry id of tab under answer q leaves
\* the status that after has
AsServiceRefresh(tab, id, q, after) ==
    Get(CheckServiceStatusCall(tab, id, q, now, ssh).tab, id).status
        = Get(after, id).status

\* C27: under every answer of the scheduler (each state, or the job in
\* neither view) check_monitor_status leaves a tracked entry with the
\* status check_service_status would leave it with.
C27_MonitorRefreshAsService ==
    [][last'.op = "check_monitor_status" =>
          \A id \in Keys(monitors), q \in RefreshOutcomes :
              (/\ last'.arg = id
               /\ CheckMonitorStatusCall(monitors, id, q, now, ssh).tab = monitors'
               /\ Refreshed("check_monitor_status", id,
                            CheckMonitorStatusCall(monitors, id, q, now, ssh)) = last')
              => AsServiceRefresh(monitors, id, q, monitors')]_vars

\* the answers in which a status query fails
Failing == {q \in RefreshOutcomes : q.squeue = "raise" \/ q.sacct = "raise"}

\* C28: when the status query fails during a refresh (the command raises,
\* the connection is lost), the status and the timestamps of the tracked
\* entry are unchanged.
C28_FailedQueryChangesNothing ==
    [][/\ last'.op = "check_service_status" =>
             \A id \in Keys(servers), q \in Failing :
                 (/\ CheckServiceStatusCall(servers, id, q, now, ssh).tab = servers'
                  /\ Refreshed("check_service_status", id,
                               CheckServiceStatusCall(servers, id, q, now, ssh)) = last')
                 => servers' = servers
       /\ last'.op = "check_client_status" =>
             \A id \in Keys(clients), q \in Failing :
                 (/\ CheckClientStatusCall(clients, id, q, now, ssh).tab = clients'
                  /\ Refreshed("check_client_status", id,
                               CheckClientStatusCall(clients, id, q, now, ssh)) = last')
                 => clients' = clients]_vars

\* a stop call on the tracked id of tab: a failed cancel returns False and
\* leaves the table as it was, and the entry changes only after a scancel
\* for its job that succeeded, which leaves it Cancelled
CancelDecides(op, tab, after) ==
    (last'.op = op /\ last'.arg \in Keys(tab)) =>
        /\ ~last'.ret_ok => after = tab
        /\ after # tab =>
              /\ last'.ret_ok
              /\ last'.cmds = <<Cmd("scancel", Get(tab, last'.arg).job_id)>>
              /\ Get(after, last'.arg).status = CANCELLED
        /\ last'.cmds = <<>> => after = tab

\* C29: when the cancel command fails during stop_service, stop_client or
\* stop_monitor on a tracked id, the call returns False and the entry is
\* unchanged; the entry is marked Cancelled only when the cancel command
\* succeeded.
C29_FailedCancelChangesNothing ==
    [][/\ CancelDecides("stop_service", servers, servers')
       /\ CancelDecides("stop_client", clients, clients')
       /\ CancelDecides("stop_monitor", monitors, monitors')]_vars

\* a stop of a tracked monitor whose scancel failed: the entry is still live
C29_Witness ==
    /\ last.op = "stop_monitor"
    /\ ~last.ret_ok
    /\ last.cmds # <<>>
    /\ last.arg \in Keys(monitors)
    /\ Get(monitors, last.arg).status \in Active
    /\ Get(monitors, last.arg).completed_at = 0

\* a start_benchmark_session whose start_client failed after its service
\* was started raises and stores a new session, failed, listing the service
FailureIsStored ==
    (/\ last'.op = "start_benchmark_session" /\ last' # last
     /\ run.pc = "client" /\ run.services # <<>>
     /\ last'.calls[Len(last'.calls)].op = "start_client"
     /\ ~last'.calls[Len(last'.calls)].ok)
    => /\ last'.raised
       /\ Len(sessions') = Len(sessions) + 1
       /\ sessions'[Len(sessions')].status = "failed"
       /\ sessions'[Len(sessions')].services = run.services

\* a stop of a stored session calls stop_service for each service it lists
StopReachesServices ==
    \A k \in 1..Len(sessions) :
        (last'.op = "stop_benchmark_session" /\ last'.arg = SessionId(k)) =>
            \A i \in 1..Len(sessions[k].services) :
                \E j \in 1..Len(last'.calls) :
                    /\ last'.calls[j].op = "stop_service"
                    /\ last'.calls[j].arg = sessions[k].services[i]

\* a start leaves every stored session as it was
StartKeepsSessions ==
    (last'.op = "start_benchmark_session" /\ last' # last) =>
        /\ Len(sessions') >= Len(sessions)
        /\ \A k \in 1..Len(sessions) : sessions'[k] = sessions[k]

\* C30: when the client start fails after the service was started, the
\* exception is propagated and a session is stored as 'failed' listing the
\* service's internal id, a later stop_benchmark_session of a session calls
\* stop_service for the services it lists, and starting further sessions
\* neither overwrites nor removes a stored session.
C30_FailedSessionIsKept ==
    [][FailureIsStored /\ StopReachesServices /\ StartKeepsSessions]_vars

\* a further session failed at its client after its service was started,
\* and the session stored before it is still there
C30_Witness ==
    /\ last.op = "start_benchmark_session"
    /\ last.raised
    /\ Len(sessions) = 2
    /\ sessions[2].status = "failed"
    /\ sessions[2].services # <<>>
    /\ sessions[2].services[1] \in Keys(servers)

====
